---------------------------- MODULE Spec2Model ----------------------------
(***************************************************************************)
(* Raindrop bookmark sync: the link & mapping registry (storage.ts), the   *)
(* operation queue and its processor (queue.ts), the local change observer *)
(* (bookmarkListeners) and the reconciliation passes (syncManager.ts), as  *)
(* a state machine.                                                        *)
(*                                                                         *)
(* Granularity: one action per suspension point.  An action is the effect  *)
(* of the awaited storage / remote / bookmark call together with the       *)
(* synchronous code that follows it up to the next await.                  *)
(*                                                                         *)
(* StorageLock (storage.ts 25-33) is a promise chain: run(task) appends    *)
(* the task, tasks run one at a time in call order.  Every write of the    *)
(* bookmark_links and sync_queue records goes through that chain, so the   *)
(* read-modify-write inside one task cannot be interleaved with another    *)
(* write of the same record: a task body is one action, taken when the     *)
(* task is at the head of the chain (lockQ).  folder_mappings is written   *)
(* outside the chain, so its reads and writes are separate actions.        *)
(*                                                                         *)
(* The specifications below share one set of actions; each enables the     *)
(* threads its claims are about.                                           *)
(***************************************************************************)
EXTENDS Integers, Sequences, FiniteSets, TLC

\* ------------------------------------------------------------------ bounds
MaxIds == 3            \* generateId() is called at most this many times
MaxTime == 6           \* Date.now() advances (in minutes) up to this value
MaxItems == 2          \* the remote service creates at most this many items
MaxOps == 2            \* the observer builds at most this many operations
MaxBookmarks == 2      \* the engine creates at most this many bookmarks
MaxRuns == 3           \* performInitialSync is called at most this many times

\* -------------------------------------------------------- program constants
PROCESSING_LOCK_TIMEOUT == 5     \* minutes (5 * 60 * 1000 ms)
DEFAULT_MAX_RETRIES == 3         \* maxRetries of every operation the observer builds
MAX_FAILED_QUEUE == 100          \* cap of the failed-operations list

\* ----------------------------------------------------------- small domains
FolderIds == {1, 2}              \* local folder ids
CollIds == {1, 2}                \* remote collection ids
BookmarkIds == {1, 2}            \* local bookmark ids (firefoxId)
ItemIds == {1, 2}                \* remote item ids (raindropId)
Urls == {"a", "a/", "b"}         \* bookmark urls
Callers == {"c1", "c2"}          \* concurrent callers of the storage API
Workers == {"w1", "w2"}          \* concurrent processQueue invocations
Events == {"e1"}                 \* concurrent bookmark event handlers
Apis == {"a1", "a2"}             \* concurrent remote calls (apiRequest)

VARIABLES
  mappings,    \* storage record folder_mappings : Seq(FolderMapping)
  links,       \* storage record bookmark_links  : Seq(BookmarkLink)
  queue,       \* storage record sync_queue      : [pending, failed]
  plock,       \* storage record queue_processing_lock: <<>> or <<timestamp>>
  remote,      \* the remote service's items
  now,         \* Date.now()
  syncDepth,   \* bookmarkListeners.syncDepth (reentrancy guard)
  lockQ,       \* StorageLock.queue: threads whose task waits in the chain
  call,        \* per caller: the storage API call in progress
  wk,          \* per worker: the processQueue invocation in progress
  ps,          \* the pushToRaindrop pass in progress
  pl,          \* the pullFromRaindrop pass in progress
  isy,         \* the performInitialSync pass in progress
  bookmarks,   \* the browser's bookmarks
  ev,          \* per event thread: the handleBookmarkCreated run in progress
  acc,         \* bookmarkListeners.pendingOperations, in key order
  timer,       \* bookmarkListeners.flushTimer is armed
  notes,       \* onCreated notifications of engine-made bookmarks, not yet delivered
  nextBm,      \* the id of the next bookmark the engine creates (11, 12, ...)
  nextId,      \* generateId(): next unused id (mappings, links)
  nextOp,      \* generateId(): next unused operation id
  nextItem,    \* the remote service's next item id
  fr,          \* the performFullResync call in progress
  cred,        \* storage record api_token, and whether a 401 answer cleared it
  api,         \* per remote call: the apiRequest in progress
  stats,       \* storage record sync_stats: its pendingOperations field
  nest,        \* the syncFolderWithChildren call in progress
  colls,       \* the remote service's collections
  rl,          \* raindropApi.rateLimiter: its requests, and the wait() calls in progress
  okMaps,      \* history: mapping ids added successfully and never removed
  okLinks      \* history: link ids added successfully and never removed

vars == <<mappings, links, queue, plock, remote, now, syncDepth, lockQ, call, wk,
          ps, pl, isy, bookmarks, ev, acc, timer, notes, nextBm, nextId, nextOp,
          nextItem, fr, cred, api, stats, nest, colls, rl, okMaps, okLinks>>

\* what only the full resync, the remote API client, the status read model
\* and the nested-folder propagation touch
auxFrame == <<fr, cred, api, stats, nest, colls, rl>>

\* what no storage API caller touches
callFrame == <<remote, now, syncDepth, wk, ps, pl, isy, bookmarks, ev, acc, timer,
               notes, nextBm, nextItem, auxFrame>>
\* what no processQueue invocation touches
wkFrame == <<mappings, now, call, ps, pl, isy, bookmarks, ev, acc, timer, notes,
             nextBm, nextOp, okMaps, okLinks, auxFrame>>
\* what the local observer's handlers do not touch
evFrame == <<mappings, links, queue, plock, remote, now, syncDepth, lockQ, call, wk,
             ps, pl, isy, nextBm, nextId, nextItem, okMaps, okLinks, auxFrame>>
\* what no reconciliation pass touches
psFrame == <<mappings, queue, plock, now, call, wk, pl, isy, bookmarks, ev, acc,
             timer, notes, nextBm, nextOp, okMaps, okLinks, auxFrame>>
\* what no pull pass touches
plFrame == <<queue, plock, remote, now, call, wk, ps, isy, ev, acc, timer, nextOp,
             nextItem, okMaps, okLinks, auxFrame>>
\* what no initial sync touches
isFrame == <<queue, plock, now, call, wk, ps, pl, ev, acc, timer, nextOp, okMaps,
             okLinks, auxFrame>>

\* ------------------------------------------------------------ sequence aids
Range(s) == {s[i] : i \in 1..Len(s)}
IndexOf(s, Test(_)) ==
  IF \E i \in 1..Len(s) : Test(s[i])
  THEN CHOOSE i \in 1..Len(s) : Test(s[i]) /\ \A j \in 1..(i-1) : ~Test(s[j])
  ELSE 0
\* { ...a, ...b }: fields of b override those of a
Merge(a, b) == [f \in DOMAIN a |-> IF f \in DOMAIN b THEN b[f] ELSE a[f]]

\* --------------------------------------------------------------------- urls
\* "a", "a/" and "a?utm" stand for https urls that differ in a trailing slash
\* of the path and in a utm_source parameter, "b" and "c" for other https
\* urls and "about:x" for an internal browser url.
\* normalizeUrl (unnamed/part_001 39-89): the trailing slash of the path and
\* the tracking parameters are dropped; a string that is no URL is kept
normalizeUrl_Exact(url) == url
normalizeUrl(url) == IF url \in {"a/", "a?utm"} THEN "a" ELSE url

\* urlsMatch (unnamed/part_001 94-96)
urlsMatch(url1, url2) == normalizeUrl(url1) = normalizeUrl(url2)

\* isValidSyncUrl (unnamed/part_001 109-142): http(s) urls only
isValidSyncUrl(url) == url \in {"a", "a/", "a?utm", "b", "c"}

\* computeBookmarkHash / computeRaindropHash (unnamed/part_001 19-30): a hash
\* of the normalized url and the title, taken as injective
computeBookmarkHash(url, title) == <<normalizeUrl(url), title>>

\* ---------------------------------------------------------------- records
FolderMapping(id, ff, rc, parent) ==
  [id |-> id, ff |-> ff, rc |-> rc, parent |-> parent, depth |-> 0, lastSync |-> 0]
\* a link, with the contentHash its writers compute from the url and title
\* they store; titles are "t" throughout
BookmarkLink(id, ff, rd, m, url) ==
  [id |-> id, ff |-> ff, rd |-> rd, m |-> m, url |-> url,
   contentHash |-> computeBookmarkHash(url, "t")]

\* an operation of the queue (types/storage.ts SyncOperation); rd = 0 stands
\* for an undefined data.raindropId, title = "" for an empty title, 0 for an
\* undefined collection or mapping id
SyncOperation(id, type, source, ff, rd, url, title, coll, m) ==
  [id |-> id, type |-> type, source |-> source, ff |-> ff, rd |-> rd,
   url |-> url, title |-> title, coll |-> coll, oldColl |-> 0, newColl |-> 0,
   m |-> m, retries |-> 0, maxRetries |-> DEFAULT_MAX_RETRIES, lastError |-> "none"]
\* the operations handleBookmarkMoved builds (popup.ts 481-494, 533-548)
DeleteOperation(id, ff, rd, m) ==
  SyncOperation(id, "delete", "firefox", ff, rd, "", "", 0, m)
MoveOperation(id, ff, rd, oldColl, newColl, m) ==
  [SyncOperation(id, "move", "firefox", ff, rd, "", "", 0, m)
     EXCEPT !.oldColl = oldColl, !.newColl = newColl]
\* the operation handleBookmarkCreated builds (popup.ts 330-345) for
\* bookmark ff created in folder 1, which mapping 11 ties to collection 1
CreateOperation(id, ff, url, title) ==
  SyncOperation(id, "create", "firefox", ff, 0, url, title, 1, 11)
\* an item of the remote service; "for" records the local bookmark on whose
\* behalf it was created
RemoteItem(id, coll, url, ff) == [id |-> id, coll |-> coll, url |-> url, for |-> ff]

\* a browser bookmark (Bookmarks.BookmarkTreeNode): id, parentId, url, title
Bookmark(id, folder, url, title) ==
  [id |-> id, folder |-> folder, url |-> url, title |-> title]

\* a thread with no call in progress
Idle == [pc |-> "idle"]
\* a call that has returned (resolved or rejected) and whose caller has not
\* resumed yet
Ret(op, res, arg) == [pc |-> "ret", op |-> op, res |-> res, arg |-> arg]

\* ======================================================== storage.ts: pure
\* bodies of the registry functions, as functions of the stored array

\* addFolderMapping's duplicate test (storage.ts 145-149)
MappingExists_OnlyFolder(ms, m) == \E i \in 1..Len(ms) : ms[i].ff = m.ff
MappingExists(ms, m) ==
  \E i \in 1..Len(ms) : ms[i].ff = m.ff \/ ms[i].rc = m.rc

\* removeFolderMapping's idsToRemove: the do/while fixpoint (storage.ts 164-176)
RECURSIVE IdsToRemove(_, _)
IdsToRemove(ms, ids) ==
  LET more == {ms[i].id : i \in {j \in 1..Len(ms) :
                 /\ ms[j].parent # 0
                 /\ ms[j].parent \in ids
                 /\ ms[j].id \notin ids}}
  IN IF more = {} THEN ids ELSE IdsToRemove(ms, ids \cup more)

\* mappings.filter(m => !idsToRemove.has(m.id)) (storage.ts 178)
FilterMappings(ms, ids) == SelectSeq(ms, LAMBDA m : m.id \notin ids)
\* links.filter(l => !idsToRemove.has(l.mappingId)) (storage.ts 183)
FilterLinks(ls, ids) == SelectSeq(ls, LAMBDA l : l.m \notin ids)

\* updateFolderMapping: findIndex + spread (storage.ts 196-203)
updateFolderMapping(ms, mappingId, updates) ==
  LET index == IndexOf(ms, LAMBDA m : m.id = mappingId)
  IN [i \in 1..Len(ms) |-> IF i = index THEN Merge(ms[i], updates) ELSE ms[i]]

\* addBookmarkLink's task body (storage.ts 257-273)
addBookmarkLink_Never(ls, link) == ls
addBookmarkLink_OnlyLocal(ls, link) ==
  IF \E i \in 1..Len(ls) : ls[i].ff = link.ff THEN ls ELSE Append(ls, link)
addBookmarkLink(ls, link) ==
  IF \E i \in 1..Len(ls) : ls[i].ff = link.ff \/ ls[i].rd = link.rd
  THEN ls
  ELSE Append(ls, link)

\* updateBookmarkLink's task body (storage.ts 282-289)
updateBookmarkLink(ls, linkId, updates) ==
  LET index == IndexOf(ls, LAMBDA l : l.id = linkId)
  IN [i \in 1..Len(ls) |-> IF i = index THEN Merge(ls[i], updates) ELSE ls[i]]

\* a removal that leaves the registry as it is
removeBookmarkLink_Keep(ls, linkId) == ls

\* removeBookmarkLink's task body (storage.ts 295-297)
removeBookmarkLink(ls, linkId) == SelectSeq(ls, LAMBDA l : l.id # linkId)

\* findBookmarkLink (storage.ts 301-318); 0 stands for an absent argument,
\* <<>> for null, <<l>> for a found link
findBookmarkLink(ls, firefoxId, raindropId) ==
  LET byFirefox == IndexOf(ls, LAMBDA l : l.ff = firefoxId)
      byRaindrop == IndexOf(ls, LAMBDA l : l.rd = raindropId)
  IN IF firefoxId # 0 /\ byFirefox # 0 THEN <<ls[byFirefox]>>
     ELSE IF raindropId # 0 /\ byRaindrop # 0 THEN <<ls[byRaindrop]>>
     ELSE <<>>

\* a lookup by url that never finds a link
findBookmarkLinkByUrl_Never(ls, url) == <<>>

\* findBookmarkLinkByUrl (storage.ts 320-325): <<>> for null
findBookmarkLinkByUrl(ls, url) ==
  LET k == IndexOf(ls, LAMBDA l : l.url = url)
  IN IF k = 0 THEN <<>> ELSE <<ls[k]>>

MappingIds(ms) == {ms[i].id : i \in 1..Len(ms)}
LinkIds(ls) == {ls[i].id : i \in 1..Len(ls)}

\* ========================================================== queue: pure
\* addToQueue's duplicate test (storage.ts 368-374)
SameOperation_Never(a, b) == FALSE
SameOperation(a, b) ==
  /\ a.type = b.type
  /\ a.source = b.source
  /\ a.ff = b.ff
  /\ a.rd = b.rd

\* addToQueue's task body (storage.ts 364-381)
addToQueue(q, operation) ==
  IF \E i \in 1..Len(q.pending) : SameOperation(q.pending[i], operation)
  THEN q
  ELSE [q EXCEPT !.pending = Append(@, operation)]

\* removeFromQueue's task body (storage.ts 385-390)
removeFromQueue(q, operationId) ==
  [pending |-> SelectSeq(q.pending, LAMBDA op : op.id # operationId),
   failed |-> SelectSeq(q.failed, LAMBDA op : op.id # operationId)]

\* failed.slice(-MAX_FAILED_QUEUE) (storage.ts 410-412)
TrimFailed(f) ==
  IF Len(f) > MAX_FAILED_QUEUE
  THEN SubSeq(f, Len(f) - MAX_FAILED_QUEUE + 1, Len(f))
  ELSE f

\* moveToFailed's task body (storage.ts 399-421)
moveToFailed(q, operationId, errorMessage) ==
  LET index == IndexOf(q.pending, LAMBDA op : op.id = operationId)
  IN IF index = 0 THEN q
     ELSE LET operation == [q.pending[index] EXCEPT
                              !.retries = @ + 1, !.lastError = errorMessage]
          IN IF operation.retries >= operation.maxRetries
             THEN [pending |-> SelectSeq(q.pending, LAMBDA op : op.id # operationId),
                   failed |-> TrimFailed(Append(q.failed, operation))]
             ELSE [q EXCEPT !.pending[index] = operation]

\* clearQueue (storage.ts 424-426): saveQueue({ pending: [], failed: [] })
clearQueue_PendingOnly(q) == [q EXCEPT !.pending = <<>>]
clearQueue(q) == [pending |-> <<>>, failed |-> <<>>]

\* retryFailed: the queue it computes from the queue it read (storage.ts 429-438)
retryFailed(q) ==
  [pending |-> q.pending \o
                [i \in 1..Len(q.failed) |->
                   [q.failed[i] EXCEPT !.retries = 0, !.lastError = "none"]],
   failed |-> <<>>]

\* acquireLock's test: the lock is held and not stale (queue.ts 70-75)
LockHeld_NeverStale(lock, t) == lock # <<>>
LockHeld_Never(lock, t) == FALSE
LockHeld(lock, t) == lock # <<>> /\ t - lock[1] < PROCESSING_LOCK_TIMEOUT

\* releaseLock: storage.local.remove(PROCESSING_LOCK_KEY) (queue.ts 83-85)
releaseLock_Keep(lock) == lock
releaseLock(lock) == <<>>

\* a flag in place of the counter: the first pass to finish clears it
setSyncing_Flag(depth, value) == IF value THEN 1 ELSE 0

\* setSyncing (popup.ts 228-234)
setSyncing(depth, value) ==
  IF value THEN depth + 1 ELSE IF depth - 1 > 0 THEN depth - 1 ELSE 0

\* pushCreateToRaindrop's validation (queue.ts 198-200); collection and
\* bookmark ids are never 0
HasCreateData(op) == op.url # "" /\ op.title # "" /\ op.coll # 0 /\ op.ff # 0

PendingIds(q) == {q.pending[i].id : i \in 1..Len(q.pending)}
FailedIds(q) == {q.failed[i].id : i \in 1..Len(q.failed)}

\* no event handler running, and the locals of handleBookmarkCreated and
\* handleBookmarkMoved
E0 ==
  [pc |-> "idle", bm |-> <<>>, mapping |-> <<>>, oldParentId |-> 0, parentId |-> 0,
   oldParentMapping |-> <<>>, newParentMapping |-> <<>>]

\* no pass running, and the locals of pushToRaindrop / pushSyncForMapping;
\* errors holds, for every message of result.errors, the id of the mapping
\* it is about
P0 ==
  [pc |-> "idle", op |-> "none", ms |-> <<>>, k |-> 0, bms |-> <<>>, rds |-> {},
   lks |-> <<>>, j |-> 0, toCreate |-> <<>>, created |-> <<>>, n |-> 0,
   link |-> <<>>, errors |-> <<>>]

\* no pull pass running, and the locals of pullFromRaindrop / pullSyncForMapping
L0 ==
  [pc |-> "idle", op |-> "none", ms |-> <<>>, k |-> 0, rds |-> <<>>, local |-> <<>>,
   all |-> <<>>, linkedUrls |-> {}, j |-> 0, d |-> 0, link |-> <<>>, upd |-> <<>>,
   errors |-> <<>>, caught |-> FALSE]

\* no initial sync running, and the locals of performInitialSync; runs holds
\* the results of the finished runs, each with whether the mapping was
\* already synced when the run began, started counts the runs begun
I0 ==
  [pc |-> "idle", op |-> "none", mapping |-> <<>>, bms |-> <<>>, rds |-> <<>>,
   matched |-> <<>>, onlyInFirefox |-> <<>>, onlyInRaindrop |-> <<>>,
   created |-> <<>>, remaining |-> <<>>, phase |-> "none", n |-> 0, link |-> <<>>,
   result |-> [matched |-> 0, createdInRaindrop |-> 0, createdInFirefox |-> 0],
   upd |-> <<>>, synced |-> FALSE, runs |-> <<>>, started |-> 0]

\* no full resync running, and the locals of performFullResync; calls lists
\* the mappings performInitialSync was called for, seen the number of
\* returned initial syncs when the current one was called
F0 ==
  [pc |-> "idle", op |-> "none", ms |-> <<>>, k |-> 0, seen |-> 0, results |-> <<>>,
   errors |-> <<>>, calls |-> <<>>, clearedLinks |-> FALSE, clearedQueue |-> FALSE]

\* the rate limiter after construction: no request recorded, no wait() call
\* in progress; wake is the time a suspended call's timer is set to
R0 ==
  [requests |-> <<>>, w |-> [a \in Apis |-> [pc |-> "idle", wake |-> 0]]]

\* no remote call in progress, and the locals of apiRequest; got401 records
\* that this call was answered 401, sent the requests it sent, late that it
\* began after a 401 answer and no credential has been saved since
A0 ==
  [pc |-> "idle", retryCount |-> 0, got401 |-> FALSE, sent |-> 0, late |-> FALSE,
   res |-> "none"]

\* no nested-folder propagation running, and the locals of
\* syncFolderWithChildren: the folder tree below the synced folder (each
\* folder's parent), the recursion's frames, the collections cache, the
\* mapping being added, the mappings collected, the folders whose recursive
\* call returned at the depth cap
N0 ==
  [pc |-> "idle", tree |-> <<>>, stack |-> <<>>, cache |-> {}, m |-> <<>>,
   snap |-> <<>>, made |-> <<>>, capped |-> {}, res |-> "none"]

\* a worker with no invocation in progress, and the locals of an invocation
W0 ==
  [pc |-> "idle", op |-> "none", acquired |-> FALSE, released |-> FALSE,
   ts |-> 0, snap |-> <<>>, i |-> 0, err |-> "none", link |-> <<>>, q |-> <<>>]

\* ================================================= callers of the registry
\* A caller is one pending invocation of a storage.ts function by a message
\* handler, an alarm handler or a bookmark event handler.

SetCall(c, rec) == call' = [call EXCEPT ![c] = rec]

\* the caller resumes after the awaited call
Return(c) ==
  /\ call[c].pc = "ret"
  /\ SetCall(c, Idle)
  /\ UNCHANGED <<mappings, links, queue, plock, lockQ, nextId, nextOp, okMaps, okLinks, callFrame>>

\* ---- addFolderMapping (storage.ts 139-158): not under storageLock
\* getFolderMappings resolves; duplicate => throw; else push and start the save
AddMappingRead(c, ff, rc, parent) ==
  /\ call[c].pc = "idle"
  /\ nextId <= MaxIds
  /\ LET m == FolderMapping(nextId, ff, rc, parent)
     IN IF MappingExists(mappings, m)
        THEN SetCall(c, Ret("addFolderMapping", "duplicate", m))
        ELSE SetCall(c, [pc |-> "amSave", op |-> "addFolderMapping",
                         arg |-> m, snap |-> Append(mappings, m)])
  /\ nextId' = nextId + 1
  /\ UNCHANGED nextOp
  /\ UNCHANGED <<mappings, links, queue, plock, lockQ, okMaps, okLinks, callFrame>>

\* saveFolderMappings(mappings) lands
AddMappingSave(c) ==
  /\ call[c].pc = "amSave"
  /\ mappings' = call[c].snap
  /\ okMaps' = okMaps \cup {call[c].arg.id}
  /\ SetCall(c, Ret("addFolderMapping", "ok", call[c].arg))
  /\ UNCHANGED <<links, queue, plock, lockQ, nextId, nextOp, okLinks, callFrame>>

\* ---- removeFolderMapping (storage.ts 160-190): mappings outside the lock,
\* links read outside the lock and saved through saveBookmarkLinks
RemoveMappingRead(c, mappingId) ==
  /\ call[c].pc = "idle"
  /\ LET ids == IdsToRemove(mappings, {mappingId})
     IN /\ SetCall(c, [pc |-> "rmSave", op |-> "removeFolderMapping",
                       arg |-> mappingId, ids |-> ids,
                       snap |-> FilterMappings(mappings, ids)])
        /\ okMaps' = okMaps \ ids
  /\ UNCHANGED <<mappings, links, queue, plock, lockQ, nextId, nextOp, okLinks, callFrame>>

RemoveMappingSave(c) ==
  /\ call[c].pc = "rmSave"
  /\ mappings' = call[c].snap
  /\ okMaps' = okMaps \ IdsToRemove(mappings, {call[c].arg})
  /\ SetCall(c, [call[c] EXCEPT !.pc = "rmLinks", !.snap = <<>>])
  /\ UNCHANGED <<links, queue, plock, lockQ, nextId, nextOp, okLinks, callFrame>>

\* getBookmarkLinks resolves; saveBookmarkLinks(filteredLinks) joins the chain
RemoveMappingReadLinks(c) ==
  /\ call[c].pc = "rmLinks"
  /\ SetCall(c, [call[c] EXCEPT !.pc = "locked",
                                !.snap = FilterLinks(links, call[c].ids)])
  /\ lockQ' = Append(lockQ, c)
  /\ okLinks' = okLinks \ {l.id : l \in {x \in Range(links) : x.m \in call[c].ids}}
  /\ UNCHANGED <<mappings, links, queue, plock, nextId, nextOp, okMaps, callFrame>>

\* ---- updateFolderMapping (storage.ts 192-204): not under storageLock
UpdateMappingRead(c, mappingId) ==
  /\ call[c].pc = "idle"
  /\ IF \E i \in 1..Len(mappings) : mappings[i].id = mappingId
     THEN SetCall(c, [pc |-> "umSave", op |-> "updateFolderMapping",
                      arg |-> mappingId,
                      snap |-> updateFolderMapping(mappings, mappingId,
                                                   [lastSync |-> now])])
     ELSE SetCall(c, Ret("updateFolderMapping", "null", mappingId))
  /\ UNCHANGED <<mappings, links, queue, plock, lockQ, nextId, nextOp, okMaps, okLinks, callFrame>>

UpdateMappingSave(c) ==
  /\ call[c].pc = "umSave"
  /\ mappings' = call[c].snap
  /\ SetCall(c, Ret("updateFolderMapping", "ok", call[c].arg))
  /\ UNCHANGED <<links, queue, plock, lockQ, nextId, nextOp, okMaps, okLinks, callFrame>>

\* ---- link mutations: storageLock.run(task); the task joins the chain
CallAddBookmarkLink(c, ff, rd, m, url) ==
  /\ call[c].pc = "idle"
  /\ nextId <= MaxIds
  /\ SetCall(c, [pc |-> "locked", op |-> "addBookmarkLink",
                 arg |-> BookmarkLink(nextId, ff, rd, m, url)])
  /\ lockQ' = Append(lockQ, c)
  /\ nextId' = nextId + 1
  /\ UNCHANGED nextOp
  /\ UNCHANGED <<mappings, links, queue, plock, okMaps, okLinks, callFrame>>

CallUpdateBookmarkLink(c, linkId, updates) ==
  /\ call[c].pc = "idle"
  /\ SetCall(c, [pc |-> "locked", op |-> "updateBookmarkLink",
                 arg |-> linkId, updates |-> updates])
  /\ lockQ' = Append(lockQ, c)
  /\ UNCHANGED <<mappings, links, queue, plock, nextId, nextOp, okMaps, okLinks, callFrame>>

CallRemoveBookmarkLink(c, linkId) ==
  /\ call[c].pc = "idle"
  /\ SetCall(c, [pc |-> "locked", op |-> "removeBookmarkLink", arg |-> linkId])
  /\ lockQ' = Append(lockQ, c)
  /\ okLinks' = okLinks \ {linkId}
  /\ UNCHANGED <<mappings, links, queue, plock, nextId, nextOp, okMaps, callFrame>>

\* ---- the head task of the StorageLock chain runs (storage.ts 28-32)
Task(t) ==
  IF t \in Workers THEN wk[t]
  ELSE IF t = "p1" THEN ps
  ELSE IF t = "l1" THEN pl
  ELSE IF t = "i1" THEN isy
  ELSE IF t = "f1" THEN fr
  ELSE call[t]
IsHead(t, op) ==
  /\ lockQ # <<>> /\ Head(lockQ) = t
  /\ Task(t).pc = "locked" /\ Task(t).op = op

RunAddBookmarkLink(c) ==
  /\ IsHead(c, "addBookmarkLink")
  /\ links' = addBookmarkLink(links, call[c].arg)
  /\ LET added == call[c].arg.id \in LinkIds(addBookmarkLink(links, call[c].arg))
     IN /\ okLinks' = IF added THEN okLinks \cup {call[c].arg.id} ELSE okLinks
        /\ SetCall(c, Ret("addBookmarkLink", IF added THEN "added" ELSE "skipped",
                          call[c].arg.id))
  /\ lockQ' = Tail(lockQ)
  /\ UNCHANGED <<mappings, queue, plock, nextId, nextOp, okMaps, callFrame>>

RunUpdateBookmarkLink(c) ==
  /\ IsHead(c, "updateBookmarkLink")
  /\ links' = updateBookmarkLink(links, call[c].arg, call[c].updates)
  /\ SetCall(c, Ret("updateBookmarkLink",
                    IF call[c].arg \in LinkIds(links) THEN "ok" ELSE "null",
                    call[c].arg))
  /\ lockQ' = Tail(lockQ)
  /\ UNCHANGED <<mappings, queue, plock, nextId, nextOp, okMaps, okLinks, callFrame>>

RunRemoveBookmarkLink(c) ==
  /\ IsHead(c, "removeBookmarkLink")
  /\ links' = removeBookmarkLink(links, call[c].arg)
  /\ okLinks' = okLinks \ {call[c].arg}
  /\ SetCall(c, Ret("removeBookmarkLink", "ok", call[c].arg))
  /\ lockQ' = Tail(lockQ)
  /\ UNCHANGED <<mappings, queue, plock, nextId, nextOp, okMaps, callFrame>>

\* saveBookmarkLinks(filteredLinks) of removeFolderMapping (storage.ts 184, 239-241)
RunRemoveMappingSaveLinks(c) ==
  /\ IsHead(c, "removeFolderMapping")
  /\ links' = call[c].snap
  /\ okLinks' = okLinks \ {l.id : l \in {x \in Range(links) : x.m \in call[c].ids}}
  /\ SetCall(c, Ret("removeFolderMapping", "ok", call[c].arg))
  /\ lockQ' = Tail(lockQ)
  /\ UNCHANGED <<mappings, queue, plock, nextId, nextOp, okMaps, callFrame>>

\* ---- addToQueue (storage.ts 363-382), called by the observer's flush
CallAddToQueue(c, ff, title) ==
  /\ call[c].pc = "idle"
  /\ nextOp <= MaxOps
  /\ SetCall(c, [pc |-> "locked", op |-> "addToQueue",
                 arg |-> CreateOperation(nextOp, ff, "a", title), rest |-> <<>>])
  /\ lockQ' = Append(lockQ, c)
  /\ nextOp' = nextOp + 1
  /\ UNCHANGED <<mappings, links, queue, plock, nextId, okMaps, okLinks, callFrame>>

\* the task runs; a flush goes on with its next operation
RunAddToQueue(c) ==
  /\ IsHead(c, "addToQueue")
  /\ queue' = addToQueue(queue, call[c].arg)
  /\ IF call[c].rest = <<>>
     THEN /\ SetCall(c, Ret("addToQueue",
                            IF addToQueue(queue, call[c].arg) = queue THEN "duplicate"
                            ELSE "added",
                            call[c].arg.id))
          /\ lockQ' = Tail(lockQ)
     ELSE /\ SetCall(c, [call[c] EXCEPT !.arg = call[c].rest[1],
                                        !.rest = Tail(call[c].rest)])
          /\ lockQ' = Append(Tail(lockQ), c)
  /\ UNCHANGED <<mappings, links, plock, nextId, nextOp, okMaps, okLinks, callFrame>>

\* ====================================================== the queue processor
SetWk(w, rec) == wk' = [wk EXCEPT ![w] = rec]

\* processQueue is called (alarm 'process-queue', start(), triggerSync);
\* acquireLock issues its storage.get
CallProcessQueue(w) ==
  /\ wk[w].pc = "idle"
  /\ SetWk(w, [W0 EXCEPT !.pc = "acquire"])
  /\ UNCHANGED <<links, queue, plock, remote, syncDepth, lockQ, nextId, nextItem, wkFrame>>

\* ---- message 'getSyncStatus' (popup.ts 1156; syncManager 806-843): the
\* status carries the pendingOperations of the record getSyncStats reads
GetSyncStatus(c) ==
  /\ call[c].pc = "idle"
  /\ SetCall(c, Ret("getSyncStatus", stats, 0))
  /\ UNCHANGED <<mappings, links, queue, plock, lockQ, nextId, nextOp, okMaps, okLinks,
                 callFrame>>

\* ---- message 'clearQueue' (popup.ts 1251-1254; storage 424-426)
CallClearQueue(c) ==
  /\ call[c].pc = "idle"
  /\ SetCall(c, [pc |-> "locked", op |-> "clearQueue"])
  /\ lockQ' = Append(lockQ, c)
  /\ UNCHANGED <<mappings, links, queue, plock, nextId, nextOp, okMaps, okLinks, callFrame>>

RunClearQueue(c) ==
  /\ IsHead(c, "clearQueue")
  /\ queue' = clearQueue(queue)
  /\ SetCall(c, Ret("clearQueue", "ok", 0))
  /\ lockQ' = Tail(lockQ)
  /\ UNCHANGED <<mappings, links, plock, nextId, nextOp, okMaps, okLinks, callFrame>>

\* ---- message 'retryFailed' (popup.ts 1245-1249): retryFailed, then forceProcess
\* retryFailed's getQueue resolves outside the lock; saveQueue joins the chain
RetryFailedRead(w) ==
  /\ wk[w].pc = "idle"
  /\ SetWk(w, [W0 EXCEPT !.pc = "locked", !.op = "retryFailed",
                         !.q = retryFailed(queue)])
  /\ lockQ' = Append(lockQ, w)
  /\ UNCHANGED <<links, queue, plock, remote, syncDepth, nextId, nextItem, wkFrame>>

\* _saveQueue(queue) lands; forceProcess is called and issues releaseLock
RunRetryFailedSave(w) ==
  /\ IsHead(w, "retryFailed")
  /\ queue' = wk[w].q
  /\ SetWk(w, [W0 EXCEPT !.pc = "force"])
  /\ lockQ' = Tail(lockQ)
  /\ UNCHANGED <<links, plock, remote, syncDepth, nextId, nextItem, wkFrame>>

\* forceProcess (queue.ts 403-407): the lock is removed, processQueue is called
ForceProcessRelease(w) ==
  /\ wk[w].pc = "force"
  /\ plock' = releaseLock(plock)
  /\ SetWk(w, [W0 EXCEPT !.pc = "acquire"])
  /\ UNCHANGED <<links, queue, remote, syncDepth, lockQ, nextId, nextItem, wkFrame>>

\* stop (queue.ts 58-67): the alarm is cleared and the lock removed
Stop ==
  /\ plock # <<>>
  /\ plock' = releaseLock(plock)
  /\ UNCHANGED <<links, queue, remote, syncDepth, lockQ, nextId, nextItem, wk, wkFrame>>

\* ---- acquireLock (queue.ts 69-81)
\* storage.get resolves: a held, young lock => return false => processQueue
\* returns; otherwise storage.set({timestamp: Date.now()}) is issued
AcquireLockGet(w) ==
  /\ wk[w].pc = "acquire"
  /\ IF LockHeld(plock, now)
     THEN SetWk(w, [W0 EXCEPT !.pc = "ret"])
     ELSE SetWk(w, [wk[w] EXCEPT !.pc = "acqSet", !.ts = now])
  /\ UNCHANGED <<links, queue, plock, remote, syncDepth, lockQ, nextId, nextItem, wkFrame>>

\* storage.set lands, acquireLock returns true; setSyncing(true); getQueue issued
AcquireLockSet(w) ==
  /\ wk[w].pc = "acqSet"
  /\ plock' = <<wk[w].ts>>
  /\ syncDepth' = setSyncing(syncDepth, TRUE)
  /\ SetWk(w, [wk[w] EXCEPT !.pc = "getQueue", !.acquired = TRUE, !.ts = 0])
  /\ UNCHANGED <<links, queue, remote, lockQ, nextId, nextItem, wkFrame>>

\* ---- the loop of processQueue (queue.ts 96-134)
\* what runs synchronously when the loop reaches index i: past the end the
\* finally block issues releaseLock; otherwise processOperation runs up to
\* its first await: pushUpdateToRaindrop and pushMoveToRaindrop validate and
\* issue updateRaindrop (queue.ts 235-245, 281-288), pushDeleteToRaindrop
\* validates and issues deleteRaindrop (265-270), pushCreateToRaindrop
\* validates and issues findBookmarkLink; a throw of the validation is caught and moveToFailed
\* joins the chain
BeginOperation(w, rec, i, chain) ==
  IF i > Len(rec.snap)
  THEN /\ SetWk(w, [rec EXCEPT !.pc = "release", !.op = "none", !.snap = <<>>,
                               !.i = 0, !.err = "none", !.link = <<>>])
       /\ lockQ' = chain
  ELSE IF rec.snap[i].type = "update"
  THEN IF rec.snap[i].rd = 0
       THEN /\ SetWk(w, [rec EXCEPT !.pc = "locked", !.op = "moveToFailed", !.i = i,
                                    !.err = "missing", !.link = <<>>])
            /\ lockQ' = Append(chain, w)
       ELSE /\ SetWk(w, [rec EXCEPT !.pc = "hUpdate", !.op = "none", !.i = i,
                                    !.err = "none", !.link = <<>>])
            /\ lockQ' = chain
  ELSE IF rec.snap[i].type = "delete"
  THEN IF rec.snap[i].rd = 0
       THEN /\ SetWk(w, [rec EXCEPT !.pc = "locked", !.op = "moveToFailed", !.i = i,
                                    !.err = "missing", !.link = <<>>])
            /\ lockQ' = Append(chain, w)
       ELSE /\ SetWk(w, [rec EXCEPT !.pc = "hDelete", !.op = "none", !.i = i,
                                    !.err = "none", !.link = <<>>])
            /\ lockQ' = chain
  ELSE IF rec.snap[i].type = "move"
  THEN IF rec.snap[i].rd = 0 \/ rec.snap[i].newColl = 0
       THEN /\ SetWk(w, [rec EXCEPT !.pc = "locked", !.op = "moveToFailed", !.i = i,
                                    !.err = "missing", !.link = <<>>])
            /\ lockQ' = Append(chain, w)
       ELSE /\ SetWk(w, [rec EXCEPT !.pc = "hMove", !.op = "none", !.i = i,
                                    !.err = "none", !.link = <<>>])
            /\ lockQ' = chain
  ELSE IF ~HasCreateData(rec.snap[i])
  THEN /\ SetWk(w, [rec EXCEPT !.pc = "locked", !.op = "moveToFailed", !.i = i,
                               !.err = "missing", !.link = <<>>])
       /\ lockQ' = Append(chain, w)
  ELSE /\ SetWk(w, [rec EXCEPT !.pc = "hFind", !.op = "none", !.i = i,
                               !.err = "none", !.link = <<>>])
       /\ lockQ' = chain

\* getQueue resolves (queue.ts 94-101)
GetQueue(w) ==
  /\ wk[w].pc = "getQueue"
  /\ BeginOperation(w, [wk[w] EXCEPT !.snap = queue.pending], 1, lockQ)
  /\ UNCHANGED <<links, queue, plock, remote, syncDepth, nextId, nextItem, wkFrame>>

\* ---- pushCreateToRaindrop (queue.ts 197-233)
\* findBookmarkLink(data.firefoxId) resolves: a link exists => the handler
\* returns and removeFromQueue joins the chain; else createRaindrop is issued
PushCreateFind(w) ==
  /\ wk[w].pc = "hFind"
  /\ IF findBookmarkLink(links, wk[w].snap[wk[w].i].ff, 0) # <<>>
     THEN /\ SetWk(w, [wk[w] EXCEPT !.pc = "locked", !.op = "removeFromQueue"])
          /\ lockQ' = Append(lockQ, w)
     ELSE /\ SetWk(w, [wk[w] EXCEPT !.pc = "hCreate"])
          /\ lockQ' = lockQ
  /\ UNCHANGED <<links, queue, plock, remote, syncDepth, nextId, nextItem, wkFrame>>

\* createRaindrop resolves: the item exists remotely; addBookmarkLink joins
\* the chain
CreateRaindropOk(w) ==
  /\ wk[w].pc = "hCreate"
  /\ nextItem <= MaxItems
  /\ nextId <= MaxIds
  /\ LET op == wk[w].snap[wk[w].i]
     IN /\ remote' = remote \cup {RemoteItem(nextItem, op.coll, op.url, op.ff)}
        /\ SetWk(w, [wk[w] EXCEPT !.pc = "locked", !.op = "addBookmarkLink",
                       !.link = <<BookmarkLink(nextId, op.ff, nextItem, op.m, op.url)>>])
  /\ nextItem' = nextItem + 1
  /\ nextId' = nextId + 1
  /\ lockQ' = Append(lockQ, w)
  /\ UNCHANGED <<links, queue, plock, syncDepth, wkFrame>>

\* createRaindrop rejects (request failed): caught, moveToFailed joins the chain
CreateRaindropFail(w) ==
  /\ wk[w].pc = "hCreate"
  /\ SetWk(w, [wk[w] EXCEPT !.pc = "locked", !.op = "moveToFailed", !.err = "api"])
  /\ lockQ' = Append(lockQ, w)
  /\ UNCHANGED <<links, queue, plock, remote, syncDepth, nextId, nextItem, wkFrame>>

\* addBookmarkLink's task runs; the handler returns; removeFromQueue joins
RunHandlerAddBookmarkLink(w) ==
  /\ IsHead(w, "addBookmarkLink")
  /\ links' = addBookmarkLink(links, wk[w].link[1])
  /\ SetWk(w, [wk[w] EXCEPT !.op = "removeFromQueue", !.link = <<>>])
  /\ lockQ' = Append(Tail(lockQ), w)
  /\ UNCHANGED <<queue, plock, remote, syncDepth, nextId, nextItem, wkFrame>>

\* ---- pushUpdateToRaindrop (queue.ts 235-263)
\* updateRaindrop resolves: the remote item carries the operation's url;
\* findBookmarkLink is issued
UpdateRaindropOk(w) ==
  /\ wk[w].pc = "hUpdate"
  /\ LET op == wk[w].snap[wk[w].i]
     IN /\ \E r \in remote : r.id = op.rd
        /\ remote' = {IF r.id = op.rd THEN [r EXCEPT !.url = op.url] ELSE r : r \in remote}
  /\ SetWk(w, [wk[w] EXCEPT !.pc = "hFindU"])
  /\ UNCHANGED <<links, queue, plock, syncDepth, lockQ, nextId, nextItem, wkFrame>>

\* updateRaindrop rejects (request failed, item gone): caught, moveToFailed
\* joins the chain
UpdateRaindropFail(w) ==
  /\ wk[w].pc = "hUpdate"
  /\ SetWk(w, [wk[w] EXCEPT !.pc = "locked", !.op = "moveToFailed", !.err = "api"])
  /\ lockQ' = Append(lockQ, w)
  /\ UNCHANGED <<links, queue, plock, remote, syncDepth, nextId, nextItem, wkFrame>>

\* findBookmarkLink(data.firefoxId, data.raindropId) resolves: with a link
\* updateBookmarkLink joins the chain, without one the handler returns and
\* removeFromQueue joins
PushUpdateFind(w) ==
  /\ wk[w].pc = "hFindU"
  /\ LET op == wk[w].snap[wk[w].i]
         link == findBookmarkLink(links, op.ff, op.rd)
     IN IF link # <<>>
        THEN SetWk(w, [wk[w] EXCEPT !.pc = "locked", !.op = "updateBookmarkLink",
                                    !.link = link])
        ELSE SetWk(w, [wk[w] EXCEPT !.pc = "locked", !.op = "removeFromQueue"])
  /\ lockQ' = Append(lockQ, w)
  /\ UNCHANGED <<links, queue, plock, remote, syncDepth, nextId, nextItem, wkFrame>>

\* updateBookmarkLink's task runs; the handler returns; removeFromQueue joins
RunHandlerUpdateBookmarkLink(w) ==
  /\ IsHead(w, "updateBookmarkLink")
  /\ LET op == wk[w].snap[wk[w].i]
     IN links' = updateBookmarkLink(links, wk[w].link[1].id,
                    [url |-> op.url, contentHash |-> computeBookmarkHash(op.url, "t")])
  /\ SetWk(w, [wk[w] EXCEPT !.op = "removeFromQueue", !.link = <<>>])
  /\ lockQ' = Append(Tail(lockQ), w)
  /\ UNCHANGED <<queue, plock, remote, syncDepth, nextId, nextItem, wkFrame>>

\* ---- pushDeleteToRaindrop (queue.ts 265-279)
\* deleteRaindrop resolves: the item is gone; findBookmarkLink is issued
DeleteRaindropOk(w) ==
  /\ wk[w].pc = "hDelete"
  /\ LET op == wk[w].snap[wk[w].i]
     IN /\ \E r \in remote : r.id = op.rd
        /\ remote' = {r \in remote : r.id # op.rd}
  /\ SetWk(w, [wk[w] EXCEPT !.pc = "hFindD"])
  /\ UNCHANGED <<links, queue, plock, syncDepth, lockQ, nextId, nextItem, wkFrame>>

\* deleteRaindrop rejects (request failed, item gone): caught, moveToFailed
\* joins the chain
DeleteRaindropFail(w) ==
  /\ wk[w].pc = "hDelete"
  /\ SetWk(w, [wk[w] EXCEPT !.pc = "locked", !.op = "moveToFailed", !.err = "api"])
  /\ lockQ' = Append(lockQ, w)
  /\ UNCHANGED <<links, queue, plock, remote, syncDepth, nextId, nextItem, wkFrame>>

\* findBookmarkLink(data.firefoxId, data.raindropId) resolves: with a link
\* removeBookmarkLink joins the chain, without one removeFromQueue does
PushDeleteFind(w) ==
  /\ wk[w].pc = "hFindD"
  /\ LET op == wk[w].snap[wk[w].i]
         link == findBookmarkLink(links, op.ff, op.rd)
     IN IF link # <<>>
        THEN SetWk(w, [wk[w] EXCEPT !.pc = "locked", !.op = "removeBookmarkLink",
                                    !.link = link])
        ELSE SetWk(w, [wk[w] EXCEPT !.pc = "locked", !.op = "removeFromQueue"])
  /\ lockQ' = Append(lockQ, w)
  /\ UNCHANGED <<links, queue, plock, remote, syncDepth, nextId, nextItem, wkFrame>>

\* removeBookmarkLink's task runs; the handler returns; removeFromQueue joins
RunHandlerRemoveBookmarkLink(w) ==
  /\ IsHead(w, "removeBookmarkLink")
  /\ links' = removeBookmarkLink(links, wk[w].link[1].id)
  /\ SetWk(w, [wk[w] EXCEPT !.op = "removeFromQueue", !.link = <<>>])
  /\ lockQ' = Append(Tail(lockQ), w)
  /\ UNCHANGED <<queue, plock, remote, syncDepth, nextId, nextItem, wkFrame>>

\* ---- pushMoveToRaindrop (queue.ts 281-303)
\* updateRaindrop resolves: the item is in the new collection;
\* findBookmarkLink is issued
MoveRaindropOk(w) ==
  /\ wk[w].pc = "hMove"
  /\ LET op == wk[w].snap[wk[w].i]
     IN /\ \E r \in remote : r.id = op.rd
        /\ remote' = {IF r.id = op.rd THEN [r EXCEPT !.coll = op.newColl] ELSE r :
                        r \in remote}
  /\ SetWk(w, [wk[w] EXCEPT !.pc = "hFindM"])
  /\ UNCHANGED <<links, queue, plock, syncDepth, lockQ, nextId, nextItem, wkFrame>>

\* updateRaindrop rejects: caught, moveToFailed joins the chain
MoveRaindropFail(w) ==
  /\ wk[w].pc = "hMove"
  /\ SetWk(w, [wk[w] EXCEPT !.pc = "locked", !.op = "moveToFailed", !.err = "api"])
  /\ lockQ' = Append(lockQ, w)
  /\ UNCHANGED <<links, queue, plock, remote, syncDepth, nextId, nextItem, wkFrame>>

\* findBookmarkLink resolves: with a link and a mapping id updateBookmarkLink
\* joins the chain, else removeFromQueue does
PushMoveFind(w) ==
  /\ wk[w].pc = "hFindM"
  /\ LET op == wk[w].snap[wk[w].i]
         link == findBookmarkLink(links, op.ff, op.rd)
     IN IF link # <<>> /\ op.m # 0
        THEN SetWk(w, [wk[w] EXCEPT !.pc = "locked", !.op = "moveBookmarkLink",
                                    !.link = link])
        ELSE SetWk(w, [wk[w] EXCEPT !.pc = "locked", !.op = "removeFromQueue"])
  /\ lockQ' = Append(lockQ, w)
  /\ UNCHANGED <<links, queue, plock, remote, syncDepth, nextId, nextItem, wkFrame>>

\* updateBookmarkLink(link.id, {mappingId}) runs; removeFromQueue joins
RunHandlerMoveBookmarkLink(w) ==
  /\ IsHead(w, "moveBookmarkLink")
  /\ links' = updateBookmarkLink(links, wk[w].link[1].id, [m |-> wk[w].snap[wk[w].i].m])
  /\ SetWk(w, [wk[w] EXCEPT !.op = "removeFromQueue", !.link = <<>>])
  /\ lockQ' = Append(Tail(lockQ), w)
  /\ UNCHANGED <<queue, plock, remote, syncDepth, nextId, nextItem, wkFrame>>

\* removeFromQueue's task runs (queue.ts 108); updateSyncStats is awaited
RunRemoveFromQueue(w) ==
  /\ IsHead(w, "removeFromQueue")
  /\ queue' = removeFromQueue(queue, wk[w].snap[wk[w].i].id)
  /\ SetWk(w, [wk[w] EXCEPT !.pc = "hStats", !.op = "none"])
  /\ lockQ' = Tail(lockQ)
  /\ UNCHANGED <<links, plock, remote, syncDepth, nextId, nextItem, wkFrame>>

\* the pendingOperations that processQueue stores after the operation at
\* index i (from 1) of its snapshot (queue.ts 111-115)
pendingOperationsAfter(snap, i) == Len(snap) - i

\* updateSyncStats lands (queue.ts 111-115; storage 466-481): the record
\* sync_stats gets the pendingOperations computed from the snapshot; the loop
\* goes on
UpdateSyncStats(w) ==
  /\ wk[w].pc = "hStats"
  /\ stats' = pendingOperationsAfter(wk[w].snap, wk[w].i)
  /\ BeginOperation(w, wk[w], wk[w].i + 1, lockQ)
  /\ UNCHANGED <<mappings, links, queue, plock, remote, now, syncDepth, call, ps, pl,
                 isy, bookmarks, ev, acc, timer, notes, nextBm, nextId, nextOp,
                 nextItem, okMaps, okLinks, fr, cred, api, nest, colls, rl>>

\* moveToFailed's task runs (queue.ts 124); the loop goes on
RunMoveToFailed(w) ==
  /\ IsHead(w, "moveToFailed")
  /\ queue' = moveToFailed(queue, wk[w].snap[wk[w].i].id, wk[w].err)
  /\ BeginOperation(w, wk[w], wk[w].i + 1, Tail(lockQ))
  /\ UNCHANGED <<links, plock, remote, syncDepth, nextId, nextItem, wkFrame>>

\* finally (queue.ts 137-140): the remove lands, setSyncing(false), return
ReleaseLock(w) ==
  /\ wk[w].pc = "release"
  /\ plock' = releaseLock(plock)
  /\ syncDepth' = setSyncing(syncDepth, FALSE)
  /\ SetWk(w, [W0 EXCEPT !.pc = "ret", !.acquired = TRUE, !.released = TRUE])
  /\ UNCHANGED <<links, queue, remote, lockQ, nextId, nextItem, wkFrame>>

\* the invocation's promise settles
ProcessQueueReturn(w) ==
  /\ wk[w].pc = "ret"
  /\ SetWk(w, W0)
  /\ UNCHANGED <<links, queue, plock, remote, syncDepth, lockQ, nextId, nextItem, wkFrame>>

\* time passes (one minute)
Tick ==
  /\ now < MaxTime
  /\ now' = now + 1
  /\ UNCHANGED <<mappings, links, queue, plock, remote, syncDepth, lockQ, call, wk,
                 ps, pl, isy, bookmarks, ev, acc, timer, notes, nextBm, nextId, nextOp,
                 nextItem, okMaps, okLinks, auxFrame>>

\* the service worker is terminated while an invocation is in progress (the
\* case PROCESSING_LOCK_TIMEOUT exists for, queue.ts 31-34): what lives in
\* memory is lost, what is stored, the remote items and the bookmarks stay
Interrupt ==
  /\ \E w \in Workers : wk[w].pc \notin {"idle", "ret"}
  /\ wk' = [w \in Workers |-> W0]
  /\ call' = [c \in Callers |-> Idle]
  /\ ev' = [e \in Events |-> E0]
  /\ ps' = P0
  /\ pl' = L0
  /\ isy' = I0
  /\ lockQ' = <<>>
  /\ syncDepth' = 0
  /\ acc' = <<>>
  /\ timer' = FALSE
  /\ fr' = F0
  /\ api' = [a \in Apis |-> A0]
  /\ nest' = N0
  /\ rl' = R0
  /\ UNCHANGED <<mappings, links, queue, plock, remote, now, bookmarks, notes,
                 nextBm, nextId, nextOp, nextItem, okMaps, okLinks, cred, stats, colls>>

\* ====================================================== the local observer
\* bookmarkListeners: handleBookmarkCreated and the 300 ms accumulator

SetEv(e, rec) == ev' = [ev EXCEPT ![e] = rec]

\* a list in place of the Map: every operation is appended
AccSet_Append(a, operation) == Append(a, operation)

\* pendingOperations.set(key, operation): a Map keeps the position of a key
\* that is set again (popup.ts 258-262)
AccSet(a, operation) ==
  IF \E i \in 1..Len(a) : a[i].ff = operation.ff
  THEN [i \in 1..Len(a) |-> IF a[i].ff = operation.ff THEN operation ELSE a[i]]
  ELSE Append(a, operation)

\* the user creates bookmark b in folder f; onCreated fires and
\* handleBookmarkCreated runs up to its first await (popup.ts
\* 266-292): it returns when the reentrancy guard is raised or the url is
\* not syncable
UserCreateBookmark(e, b, f, url) ==
  /\ ev[e].pc = "idle"
  /\ \A x \in bookmarks : x.id # b
  /\ bookmarks' = bookmarks \cup {Bookmark(b, f, url, "t")}
  /\ IF syncDepth > 0 \/ ~isValidSyncUrl(url)
     THEN ev' = ev
     ELSE SetEv(e, [E0 EXCEPT !.pc = "eMapping", !.bm = <<Bookmark(b, f, url, "t")>>])
  /\ UNCHANGED <<acc, timer, notes, nextOp, evFrame>>

\* isAuthenticated, getSettings and findMappingByFirefoxId(parentId) have
\* resolved (popup.ts 293-311); the user is signed in, sync enabled
EvFindMapping(e) ==
  /\ ev[e].pc = "eMapping"
  /\ LET k == IndexOf(mappings, LAMBDA m : m.ff = ev[e].bm[1].folder)
     IN IF k = 0
        THEN SetEv(e, E0)
        ELSE SetEv(e, [ev[e] EXCEPT !.pc = "eLink", !.mapping = <<mappings[k]>>])
  /\ UNCHANGED <<bookmarks, acc, timer, notes, nextOp, evFrame>>

\* findBookmarkLink(id) resolves (popup.ts 317-321)
EvFindLink(e) ==
  /\ ev[e].pc = "eLink"
  /\ IF findBookmarkLink(links, ev[e].bm[1].id, 0) # <<>>
     THEN SetEv(e, E0)
     ELSE SetEv(e, [ev[e] EXCEPT !.pc = "eUrl"])
  /\ UNCHANGED <<bookmarks, acc, timer, notes, nextOp, evFrame>>

\* findBookmarkLinkByUrl(url) resolves; the operation is built and handed to
\* batchAddToQueue, which arms the flush timer (popup.ts 322-346)
EvFindLinkByUrl(e) ==
  /\ ev[e].pc = "eUrl"
  /\ IF findBookmarkLinkByUrl(links, ev[e].bm[1].url) # <<>>
     THEN /\ UNCHANGED <<acc, timer, nextOp>>
     ELSE /\ nextOp <= MaxOps
          /\ acc' = AccSet(acc, SyncOperation(nextOp, "create", "firefox",
                                 ev[e].bm[1].id, 0, ev[e].bm[1].url, ev[e].bm[1].title,
                                 ev[e].mapping[1].rc, ev[e].mapping[1].id))
          /\ timer' = TRUE
          /\ nextOp' = nextOp + 1
  /\ SetEv(e, E0)
  /\ UNCHANGED <<bookmarks, notes, evFrame>>

\* ---- handleBookmarkMoved (popup.ts 449-555)
\* findMappingByFirefoxId (storage.ts): <<>> for undefined
findMappingByFirefoxId(ms, folder) ==
  LET k == IndexOf(ms, LAMBDA m : m.ff = folder)
  IN IF k = 0 THEN <<>> ELSE <<ms[k]>>

\* the user moves bookmark b to folder f; onMoved fires and
\* handleBookmarkMoved runs up to its first await (popup.ts 449-460): it
\* returns when the reentrancy guard is raised
UserMoveBookmark(e, b, f) ==
  /\ ev[e].pc = "idle"
  /\ \E x \in bookmarks :
       /\ x.id = b /\ x.folder # f
       /\ bookmarks' = (bookmarks \ {x}) \cup {[x EXCEPT !.folder = f]}
       /\ IF syncDepth > 0
          THEN ev' = ev
          ELSE SetEv(e, [E0 EXCEPT !.pc = "mMappings", !.bm = <<[x EXCEPT !.folder = f]>>,
                                   !.oldParentId = x.folder, !.parentId = f])
  /\ UNCHANGED <<acc, timer, notes, nextOp, evFrame>>

\* isAuthenticated, getSettings and the two findMappingByFirefoxId calls have
\* resolved (popup.ts 460-467); findBookmarkLink is awaited
EvMovedFindMappings(e) ==
  /\ ev[e].pc = "mMappings"
  /\ SetEv(e, [ev[e] EXCEPT !.pc = "mLink",
                 !.oldParentMapping = findMappingByFirefoxId(mappings, ev[e].oldParentId),
                 !.newParentMapping = findMappingByFirefoxId(mappings, ev[e].parentId)])
  /\ UNCHANGED <<bookmarks, acc, timer, notes, nextOp, evFrame>>

\* findBookmarkLink(id) resolves (popup.ts 470-554): neither parent mapped =>
\* return; moved out => a delete operation if there is a link; moved in =>
\* bookmarks.get is awaited; moved between mapped folders => a move operation
\* if there is a link
EvMovedFindLink(e) ==
  /\ ev[e].pc = "mLink"
  /\ LET link == findBookmarkLink(links, ev[e].bm[1].id, 0)
         old == ev[e].oldParentMapping
         new == ev[e].newParentMapping
     IN IF old = <<>> /\ new # <<>>
        THEN /\ SetEv(e, [ev[e] EXCEPT !.pc = "mGet"])
             /\ UNCHANGED <<acc, timer, nextOp>>
        ELSE /\ SetEv(e, E0)
             /\ IF link = <<>> \/ (old = <<>> /\ new = <<>>)
                THEN UNCHANGED <<acc, timer, nextOp>>
                ELSE /\ nextOp <= MaxOps
                     /\ acc' = AccSet(acc,
                          IF new = <<>>
                          THEN DeleteOperation(nextOp, ev[e].bm[1].id, link[1].rd, old[1].id)
                          ELSE MoveOperation(nextOp, ev[e].bm[1].id, link[1].rd,
                                             old[1].rc, new[1].rc, new[1].id))
                     /\ timer' = TRUE
                     /\ nextOp' = nextOp + 1
  /\ UNCHANGED <<bookmarks, notes, evFrame>>

\* bookmarks.get(id) resolves (popup.ts 502-529): a create operation with the
\* bookmark's url is handed to batchAddToQueue; it rejects when the bookmark
\* is gone, which is caught
EvMovedGetBookmark(e) ==
  /\ ev[e].pc = "mGet"
  /\ IF \E x \in bookmarks : x.id = ev[e].bm[1].id
     THEN LET bookmark == CHOOSE x \in bookmarks : x.id = ev[e].bm[1].id
          IN /\ nextOp <= MaxOps
             /\ acc' = AccSet(acc, SyncOperation(nextOp, "create", "firefox",
                                    bookmark.id, 0, bookmark.url, bookmark.title,
                                    ev[e].newParentMapping[1].rc,
                                    ev[e].newParentMapping[1].id))
             /\ timer' = TRUE
             /\ nextOp' = nextOp + 1
     ELSE UNCHANGED <<acc, timer, nextOp>>
  /\ SetEv(e, E0)
  /\ UNCHANGED <<bookmarks, notes, evFrame>>

\* ---- handleBookmarkRemoved (popup.ts 349-391)
\* the user removes bookmark b; onRemoved fires and handleBookmarkRemoved runs
\* up to its first await (popup.ts 349-358): it returns when the reentrancy
\* guard is raised
UserRemoveBookmark(e, b) ==
  /\ ev[e].pc = "idle"
  /\ \E x \in bookmarks :
       /\ x.id = b
       /\ bookmarks' = bookmarks \ {x}
       /\ IF syncDepth > 0
          THEN ev' = ev
          ELSE SetEv(e, [E0 EXCEPT !.pc = "rLink", !.bm = <<x>>])
  /\ UNCHANGED <<acc, timer, notes, nextOp, evFrame>>

\* isAuthenticated and getSettings have resolved; findBookmarkLink(id)
\* resolves (popup.ts 360-391): without a link the handler returns, with one
\* a delete operation is handed to batchAddToQueue
EvRemovedFindLink(e) ==
  /\ ev[e].pc = "rLink"
  /\ LET link == findBookmarkLink(links, ev[e].bm[1].id, 0)
     IN IF link = <<>>
        THEN UNCHANGED <<acc, timer, nextOp>>
        ELSE /\ nextOp <= MaxOps
             /\ acc' = AccSet(acc, DeleteOperation(nextOp, ev[e].bm[1].id, link[1].rd,
                                                   link[1].m))
             /\ timer' = TRUE
             /\ nextOp' = nextOp + 1
  /\ SetEv(e, E0)
  /\ UNCHANGED <<bookmarks, notes, evFrame>>

\* the flush timer fires (popup.ts 248-256): the accumulator is
\* emptied and addToQueue is called for its operations, one after the other
FlushTimer(c) ==
  /\ timer
  /\ call[c].pc = "idle"
  /\ timer' = FALSE
  /\ acc' = <<>>
  /\ SetCall(c, [pc |-> "locked", op |-> "addToQueue", arg |-> acc[1],
                 rest |-> Tail(acc)])
  /\ lockQ' = Append(lockQ, c)
  /\ UNCHANGED <<mappings, links, queue, plock, remote, now, syncDepth, wk, ps, pl,
                 isy, notes, nextBm, nextId, nextOp, nextItem, okMaps, okLinks,
                 bookmarks, ev, auxFrame>>

\* ================================================= pushToRaindrop (a pass)
SetPs(rec) == ps' = rec

\* bookmarks.getChildren(folder), filtered to bookmarks (syncManager 511-518);
\* children come in creation order
RECURSIVE SortById(_)
SortById(S) ==
  IF S = {} THEN <<>>
  ELSE LET x == CHOOSE y \in S : \A z \in S : y.id <= z.id
       IN <<x>> \o SortById(S \ {x})

Children(bs, f) == SortById({b \in bs : b.folder = f})

\* raindropByUrl.get(normalizeUrl(url)) (syncManager 524-531, 551): of the
\* listed items with that normalized link the Map keeps the one listed last
RaindropByUrl(rds, url) ==
  LET same == {r \in rds : normalizeUrl(r.url) = normalizeUrl(url)}
  IN IF same = {} THEN <<>>
     ELSE <<CHOOSE r \in same : \A x \in same : x.id <= r.id>>

\* pushToRaindrop is called (triggerSync, the periodic sync alarm);
\* getSettings is awaited
CallPush ==
  /\ ps.pc = "idle"
  /\ SetPs([P0 EXCEPT !.pc = "pGuard"])
  /\ UNCHANGED <<links, remote, syncDepth, lockQ, nextId, nextItem, psFrame>>

\* the isSyncInProgress test (syncManager 452-457)
PushGuard ==
  /\ ps.pc = "pGuard"
  /\ IF syncDepth > 0 THEN SetPs(P0) ELSE SetPs([ps EXCEPT !.pc = "pMappings"])
  /\ UNCHANGED <<links, remote, syncDepth, lockQ, nextId, nextItem, psFrame>>

\* getFolderMappings resolves; setSyncing(true); the first mapping's folder
\* is looked up (syncManager 459-471, 502-513)
PushGetMappings ==
  /\ ps.pc = "pMappings"
  /\ IF mappings = <<>>
     THEN SetPs(P0) /\ UNCHANGED syncDepth
     ELSE /\ SetPs([ps EXCEPT !.pc = "pChildren", !.ms = mappings, !.k = 1])
          /\ syncDepth' = setSyncing(syncDepth, TRUE)
  /\ UNCHANGED <<links, remote, lockQ, nextId, nextItem, psFrame>>

\* bookmarks.get finds the folder and getChildren resolves (syncManager
\* 502-518); mapped folders are never deleted here
PushGetChildren ==
  /\ ps.pc = "pChildren"
  /\ SetPs([ps EXCEPT !.pc = "pRemote", !.bms = Children(bookmarks, ps.ms[ps.k].ff)])
  /\ UNCHANGED <<links, remote, syncDepth, lockQ, nextId, nextItem, psFrame>>

\* getAllRaindropsInCollection resolves (syncManager 521-523)
PushGetRaindrops ==
  /\ ps.pc = "pRemote"
  /\ SetPs([ps EXCEPT !.pc = "pLinks",
                      !.rds = {r \in remote : r.coll = ps.ms[ps.k].rc}])
  /\ UNCHANGED <<links, remote, syncDepth, lockQ, nextId, nextItem, psFrame>>

\* a loop that ends with the mapping at hand
PushNextMapping_Abort(rec, chain) ==
  /\ SetPs([P0 EXCEPT !.pc = "pRet", !.ms = rec.ms, !.k = rec.k,
                      !.errors = rec.errors])
  /\ lockQ' = chain
  /\ syncDepth' = setSyncing(syncDepth, FALSE)

\* after mapping k: the next mapping, or finally setSyncing(false) and
\* return result (syncManager 473-488)
PushNextMapping(rec, chain) ==
  IF rec.k < Len(rec.ms)
  THEN /\ SetPs([P0 EXCEPT !.pc = "pChildren", !.ms = rec.ms, !.k = rec.k + 1,
                           !.errors = rec.errors])
       /\ lockQ' = chain
       /\ UNCHANGED syncDepth
  ELSE /\ SetPs([P0 EXCEPT !.pc = "pRet", !.ms = rec.ms, !.k = rec.k,
                           !.errors = rec.errors])
       /\ lockQ' = chain
       /\ syncDepth' = setSyncing(syncDepth, FALSE)

\* the caller of pushToRaindrop resumes with the result
PushReturn ==
  /\ ps.pc = "pRet"
  /\ SetPs(P0)
  /\ UNCHANGED <<links, remote, syncDepth, lockQ, nextId, nextItem, psFrame>>

\* getAllRaindropsInCollection rejects: caught per mapping and pushed to
\* result.errors (syncManager 478-482)
PushGetRaindropsFail ==
  /\ ps.pc = "pRemote"
  /\ PushNextMapping([ps EXCEPT !.errors = Append(@, ps.ms[ps.k].id)], lockQ)
  /\ UNCHANGED <<links, remote, nextId, nextItem, psFrame>>

\* the scan of the folder's bookmarks from index j (syncManager 541-577),
\* up to its next await: linked bookmarks and unsyncable urls are passed
\* over, an unlinked bookmark whose normalized url is not listed remotely is
\* collected; the scan stops at an unlinked bookmark whose url is listed
RECURSIVE ScanFrom(_, _, _, _, _)
ScanFrom(bms, lks, rds, j, toCreate) ==
  IF j > Len(bms) THEN [j |-> j, toCreate |-> toCreate]
  ELSE IF ~isValidSyncUrl(bms[j].url) \/ \E i \in 1..Len(lks) : lks[i].ff = bms[j].id
  THEN ScanFrom(bms, lks, rds, j + 1, toCreate)
  ELSE IF RaindropByUrl(rds, bms[j].url) # <<>>
  THEN [j |-> j, toCreate |-> toCreate]
  ELSE ScanFrom(bms, lks, rds, j + 1, Append(toCreate, bms[j]))

\* where the scan stops: addBookmarkLink joins the chain for a bookmark whose
\* url is listed; after the last bookmark createRaindrops is issued for the
\* collected ones, if any
PushScan(rec, from, chain) ==
  LET r == ScanFrom(rec.bms, rec.lks, rec.rds, from, rec.toCreate)
      at == [rec EXCEPT !.toCreate = r.toCreate, !.j = r.j, !.op = "none",
                        !.link = <<>>]
  IN IF r.j > Len(rec.bms)
     THEN IF r.toCreate # <<>>
          THEN /\ SetPs([at EXCEPT !.pc = "pCreate"])
               /\ lockQ' = chain
               /\ UNCHANGED <<syncDepth, nextId>>
          ELSE PushNextMapping(at, chain) /\ UNCHANGED nextId
     ELSE /\ nextId <= MaxIds
          /\ SetPs([at EXCEPT !.pc = "locked", !.op = "addBookmarkLink",
                      !.link = <<BookmarkLink(nextId, rec.bms[r.j].id,
                                   RaindropByUrl(rec.rds, rec.bms[r.j].url)[1].id,
                                   rec.ms[rec.k].id, rec.bms[r.j].url)>>])
          /\ nextId' = nextId + 1
          /\ lockQ' = Append(chain, "p1")
          /\ UNCHANGED syncDepth

\* getBookmarkLinks resolves (syncManager 526); the scan starts
PushGetLinks ==
  /\ ps.pc = "pLinks"
  /\ PushScan([ps EXCEPT !.lks = links], 1, lockQ)
  /\ UNCHANGED <<links, remote, nextItem, psFrame>>

\* the links of the created items, from index n (syncManager 586-607), up to
\* the next await
PushLinkCreated(rec, n, chain) ==
  IF n > Len(rec.created)
  THEN PushNextMapping(rec, chain) /\ UNCHANGED nextId
  ELSE /\ nextId <= MaxIds
       /\ SetPs([rec EXCEPT !.pc = "locked", !.op = "addBookmarkLink", !.n = n,
                   !.link = <<BookmarkLink(nextId, rec.toCreate[n].id, rec.created[n],
                                           rec.ms[rec.k].id, rec.toCreate[n].url)>>])
       /\ nextId' = nextId + 1
       /\ lockQ' = Append(chain, "p1")
       /\ UNCHANGED syncDepth

\* createRaindrops resolves (syncManager 581-585): one item per collected
\* bookmark now exists remotely
PushCreateOk ==
  /\ ps.pc = "pCreate"
  /\ nextItem + Len(ps.toCreate) - 1 <= MaxItems
  /\ remote' = remote \cup
       {RemoteItem(nextItem + i - 1, ps.ms[ps.k].rc, ps.toCreate[i].url,
                   ps.toCreate[i].id) : i \in 1..Len(ps.toCreate)}
  /\ nextItem' = nextItem + Len(ps.toCreate)
  /\ PushLinkCreated([ps EXCEPT !.created =
                        [i \in 1..Len(ps.toCreate) |-> nextItem + i - 1]], 1, lockQ)
  /\ UNCHANGED <<links, psFrame>>

\* CHUNK_SIZE of createRaindrops (popup.ts 919), scaled to the lists of the
\* model; the chunk the i-th item of a bulk request travels in
CHUNK_SIZE == 1
ChunkOf(i) == ((i - 1) \div CHUNK_SIZE) + 1

\* createRaindrops resolves after the requests of the chunks in failed were
\* answered without result or items (popup.ts 922-937): the items of the
\* other chunks exist remotely and are returned, in request order, as one
\* list
PushCreatePartial ==
  /\ ps.pc = "pCreate"
  /\ \E failed \in SUBSET {ChunkOf(i) : i \in 1..Len(ps.toCreate)} :
       /\ failed # {}
       /\ LET sent == SelectSeq([i \in 1..Len(ps.toCreate) |-> i],
                                LAMBDA i : ChunkOf(i) \notin failed)
          IN /\ nextItem + Len(sent) - 1 <= MaxItems
             /\ remote' = remote \cup
                  {RemoteItem(nextItem + p - 1, ps.ms[ps.k].rc, ps.toCreate[sent[p]].url,
                              ps.toCreate[sent[p]].id) : p \in 1..Len(sent)}
             /\ nextItem' = nextItem + Len(sent)
             /\ PushLinkCreated([ps EXCEPT !.created =
                                   [p \in 1..Len(sent) |-> nextItem + p - 1]], 1, lockQ)
  /\ UNCHANGED <<links, psFrame>>

\* createRaindrops rejects: caught and reported (syncManager 609-613)
PushCreateFail ==
  /\ ps.pc = "pCreate"
  /\ PushNextMapping([ps EXCEPT !.errors = Append(@, ps.ms[ps.k].id)], lockQ)
  /\ UNCHANGED <<links, remote, nextId, nextItem, psFrame>>

\* addBookmarkLink's task runs; the scan, or the linking of created items,
\* goes on
RunPushAddBookmarkLink ==
  /\ IsHead("p1", "addBookmarkLink")
  /\ links' = addBookmarkLink(links, ps.link[1])
  /\ IF ps.created = <<>>
     THEN PushScan(ps, ps.j + 1, Tail(lockQ))
     ELSE PushLinkCreated([ps EXCEPT !.op = "none", !.link = <<>>], ps.n + 1, Tail(lockQ))
  /\ UNCHANGED <<remote, nextItem, psFrame>>

\* ================================================ pullFromRaindrop (a pass)
SetPl(rec) == pl' = rec

\* getAllRaindropsInCollection (popup.ts 863-882): the collection's items, in
\* id order
ItemsIn(rs, coll) == SortById({r \in rs : r.coll = coll})

\* Map.get of a Map filled by set(link.raindropId, link) over ls (syncManager
\* 315-324): the last link with that remote id, <<>> for undefined
LinkByRaindropId(ls, rd) ==
  LET S == {i \in 1..Len(ls) : ls[i].rd = rd}
  IN IF S = {} THEN <<>> ELSE <<ls[CHOOSE i \in S : \A j \in S : j <= i]>>

\* pullFromRaindrop is called (the periodic sync alarm, triggerSync);
\* getSettings is awaited
CallPull ==
  /\ pl.pc = "idle"
  /\ SetPl([L0 EXCEPT !.pc = "lGuard"])
  /\ UNCHANGED <<mappings, links, syncDepth, lockQ, bookmarks, notes, nextBm, nextId,
                 plFrame>>

\* the isSyncInProgress test (syncManager 247-252); getFolderMappings is issued
PullGuard ==
  /\ pl.pc = "lGuard"
  /\ IF syncDepth > 0 THEN SetPl(L0) ELSE SetPl([pl EXCEPT !.pc = "lMappings"])
  /\ UNCHANGED <<mappings, links, syncDepth, lockQ, bookmarks, notes, nextBm, nextId,
                 plFrame>>

\* getFolderMappings resolves; setSyncing(true); the first mapping's items
\* are requested (syncManager 254-267, 303-306)
PullGetMappings ==
  /\ pl.pc = "lMappings"
  /\ IF mappings = <<>>
     THEN SetPl(L0) /\ UNCHANGED syncDepth
     ELSE /\ SetPl([pl EXCEPT !.pc = "lRemote", !.ms = mappings, !.k = 1])
          /\ syncDepth' = setSyncing(syncDepth, TRUE)
  /\ UNCHANGED <<mappings, links, lockQ, bookmarks, notes, nextBm, nextId, plFrame>>

\* getAllRaindropsInCollection resolves (syncManager 304-306)
PullGetRaindrops ==
  /\ pl.pc = "lRemote"
  /\ SetPl([pl EXCEPT !.pc = "lLocal", !.rds = ItemsIn(remote, pl.ms[pl.k].rc)])
  /\ UNCHANGED <<mappings, links, syncDepth, lockQ, bookmarks, notes, nextBm, nextId,
                 plFrame>>

\* getBookmarkLinksForMapping resolves (syncManager 309)
PullGetLocalLinks ==
  /\ pl.pc = "lLocal"
  /\ SetPl([pl EXCEPT !.pc = "lAll",
                      !.local = SelectSeq(links, LAMBDA l : l.m = pl.ms[pl.k].id)])
  /\ UNCHANGED <<mappings, links, syncDepth, lockQ, bookmarks, notes, nextBm, nextId,
                 plFrame>>

\* after mapping k: the next mapping, or updateSyncStats is awaited
\* (syncManager 265-283)
PullNextMapping(rec, chain) ==
  /\ IF rec.k < Len(rec.ms)
     THEN SetPl([L0 EXCEPT !.pc = "lRemote", !.ms = rec.ms, !.k = rec.k + 1,
                          !.errors = rec.errors])
     ELSE SetPl([L0 EXCEPT !.pc = "lStats", !.ms = rec.ms, !.k = rec.k,
                          !.errors = rec.errors])
  /\ lockQ' = chain

\* getAllRaindropsInCollection rejects: caught per mapping and pushed to
\* result.errors (syncManager 272-276)
PullGetRaindropsFail ==
  /\ pl.pc = "lRemote"
  /\ PullNextMapping([pl EXCEPT !.errors = Append(@, pl.ms[pl.k].id)], lockQ)
  /\ UNCHANGED <<mappings, links, syncDepth, bookmarks, notes, nextBm, nextId, plFrame>>

\* the loop over the collection's items from index j (syncManager 341-407) up
\* to its next await: it stops at an item without a link whose normalized
\* url is not linked (bookmarks.create) and at an item whose link of this
\* mapping carries another hash (bookmarks.update)
RECURSIVE PullScanFrom(_, _)
PullScanFrom(rec, j) ==
  IF j > Len(rec.rds) THEN j
  ELSE LET raindrop == rec.rds[j]
           globalLink == LinkByRaindropId(rec.all, raindrop.id)
           localLink == LinkByRaindropId(rec.local, raindrop.id)
       IN IF globalLink = <<>>
          THEN IF normalizeUrl(raindrop.url) \in rec.linkedUrls
               THEN PullScanFrom(rec, j + 1)
               ELSE j
          ELSE IF localLink # <<>>
                  /\ computeBookmarkHash(raindrop.url, "t") # localLink[1].contentHash
          THEN j
          ELSE PullScanFrom(rec, j + 1)

\* the loop over this mapping's links from index d (syncManager 410-423) up to
\* its next await: it stops at a link whose item is not listed
RECURSIVE PullDeleteFrom(_, _)
PullDeleteFrom(rec, d) ==
  IF d > Len(rec.local) THEN d
  ELSE IF \E i \in 1..Len(rec.rds) : rec.rds[i].id = rec.local[d].rd
  THEN PullDeleteFrom(rec, d + 1)
  ELSE d

\* where the second loop stops: bookmarks.remove is issued, or after the last
\* link updateFolderMapping reads the mappings (syncManager 410-426)
PullDeleteScan(rec, from, chain) ==
  LET d == PullDeleteFrom(rec, from)
      at == [rec EXCEPT !.d = d, !.op = "none", !.link = <<>>]
  IN /\ IF d > Len(rec.local)
        THEN SetPl([at EXCEPT !.pc = "lMapRead"])
        ELSE SetPl([at EXCEPT !.pc = "lRemove"])
     /\ lockQ' = chain

\* where the first loop stops
PullScan(rec, from, chain) ==
  LET j == PullScanFrom(rec, from)
      at == [rec EXCEPT !.j = j, !.op = "none", !.link = <<>>]
  IN IF j > Len(rec.rds)
     THEN PullDeleteScan(at, 1, chain)
     ELSE /\ IF LinkByRaindropId(rec.all, rec.rds[j].id) = <<>>
             THEN SetPl([at EXCEPT !.pc = "lCreate"])
             ELSE SetPl([at EXCEPT !.pc = "lUpdate"])
          /\ lockQ' = chain

\* getBookmarkLinks resolves (syncManager 312-338); the first loop starts
PullGetAllLinks ==
  /\ pl.pc = "lAll"
  /\ PullScan([pl EXCEPT !.all = links,
                         !.linkedUrls = {normalizeUrl(l.url) : l \in Range(links)}],
              1, lockQ)
  /\ UNCHANGED <<mappings, links, syncDepth, bookmarks, notes, nextBm, nextId, plFrame>>

\* bookmarks.create resolves (syncManager 357-375): the bookmark exists, its
\* onCreated notification is on its way, addBookmarkLink joins the chain
PullCreateBookmark ==
  /\ pl.pc = "lCreate"
  /\ nextBm <= 10 + MaxBookmarks
  /\ nextId <= MaxIds
  /\ LET raindrop == pl.rds[pl.j]
         bookmark == Bookmark(nextBm, pl.ms[pl.k].ff, raindrop.url, "t")
     IN /\ bookmarks' = bookmarks \cup {bookmark}
        /\ notes' = notes \cup {bookmark}
        /\ SetPl([pl EXCEPT !.pc = "locked", !.op = "addBookmarkLink",
                     !.link = <<BookmarkLink(nextId, nextBm, raindrop.id,
                                             pl.ms[pl.k].id, raindrop.url)>>])
  /\ nextBm' = nextBm + 1
  /\ nextId' = nextId + 1
  /\ lockQ' = Append(lockQ, "l1")
  /\ UNCHANGED <<mappings, links, syncDepth, plFrame>>

\* addBookmarkLink's task runs; linkedUrls.add; the first loop goes on
RunPullAddBookmarkLink ==
  /\ IsHead("l1", "addBookmarkLink")
  /\ links' = addBookmarkLink(links, pl.link[1])
  /\ PullScan([pl EXCEPT !.linkedUrls = @ \cup {normalizeUrl(pl.rds[pl.j].url)}],
              pl.j + 1, Tail(lockQ))
  /\ UNCHANGED <<mappings, syncDepth, bookmarks, notes, nextBm, nextId, plFrame>>

\* bookmarks.update resolves (syncManager 387-398): the bookmark carries the
\* item's url and updateBookmarkLink joins the chain; it rejects when the
\* bookmark is gone, which is caught, and the loop goes on
PullUpdateBookmark ==
  /\ pl.pc = "lUpdate"
  /\ LET raindrop == pl.rds[pl.j]
         localLink == LinkByRaindropId(pl.local, raindrop.id)[1]
     IN IF \E b \in bookmarks : b.id = localLink.ff
        THEN /\ bookmarks' = {IF b.id = localLink.ff THEN [b EXCEPT !.url = raindrop.url]
                              ELSE b : b \in bookmarks}
             /\ SetPl([pl EXCEPT !.pc = "locked", !.op = "updateBookmarkLink",
                          !.link = <<localLink>>])
             /\ lockQ' = Append(lockQ, "l1")
        ELSE /\ bookmarks' = bookmarks
             /\ PullScan([pl EXCEPT !.errors = Append(@, pl.ms[pl.k].id)],
                         pl.j + 1, lockQ)
  /\ UNCHANGED <<mappings, links, syncDepth, notes, nextBm, nextId, plFrame>>

\* updateBookmarkLink's task runs; the first loop goes on
RunPullUpdateBookmarkLink ==
  /\ IsHead("l1", "updateBookmarkLink")
  /\ links' = updateBookmarkLink(links, pl.link[1].id,
                 [url |-> pl.rds[pl.j].url,
                  contentHash |-> computeBookmarkHash(pl.rds[pl.j].url, "t")])
  /\ PullScan(pl, pl.j + 1, Tail(lockQ))
  /\ UNCHANGED <<mappings, syncDepth, bookmarks, notes, nextBm, nextId, plFrame>>

\* bookmarks.remove resolves, or rejects because the bookmark is gone and the
\* catch block is entered; either way removeBookmarkLink joins the chain
\* (syncManager 413-421)
PullRemoveBookmark ==
  /\ pl.pc = "lRemove"
  /\ bookmarks' = {b \in bookmarks : b.id # pl.local[pl.d].ff}
  /\ SetPl([pl EXCEPT !.pc = "locked", !.op = "removeBookmarkLink",
               !.caught = \A b \in bookmarks : b.id # pl.local[pl.d].ff])
  /\ lockQ' = Append(lockQ, "l1")
  /\ UNCHANGED <<mappings, links, syncDepth, notes, nextBm, nextId, plFrame>>

\* removeBookmarkLink's task runs; the second loop goes on
RunPullRemoveBookmarkLink ==
  /\ IsHead("l1", "removeBookmarkLink")
  /\ links' = removeBookmarkLink(links, pl.local[pl.d].id)
  /\ PullDeleteScan(pl, pl.d + 1, Tail(lockQ))
  /\ UNCHANGED <<mappings, syncDepth, bookmarks, notes, nextBm, nextId, plFrame>>

\* updateFolderMapping(mapping.id, {lastSync}) reads the mappings (syncManager
\* 426, storage.ts 192-200): an unknown id ends it without a write
PullUpdateMappingRead ==
  /\ pl.pc = "lMapRead"
  /\ IF pl.ms[pl.k].id \in MappingIds(mappings)
     THEN /\ SetPl([pl EXCEPT !.pc = "lMapSave",
                       !.upd = <<updateFolderMapping(mappings, pl.ms[pl.k].id,
                                                     [lastSync |-> now])>>])
          /\ lockQ' = lockQ
     ELSE PullNextMapping(pl, lockQ)
  /\ UNCHANGED <<mappings, links, syncDepth, bookmarks, notes, nextBm, nextId, plFrame>>

\* saveFolderMappings lands (storage.ts 201-203), outside the StorageLock chain
PullUpdateMappingSave ==
  /\ pl.pc = "lMapSave"
  /\ mappings' = pl.upd[1]
  /\ PullNextMapping(pl, lockQ)
  /\ UNCHANGED <<links, syncDepth, bookmarks, notes, nextBm, nextId, plFrame>>

\* updateSyncStats settles; return result; finally setSyncing(false)
\* (syncManager 280-290)
PullReturn ==
  /\ pl.pc = "lStats"
  /\ syncDepth' = setSyncing(syncDepth, FALSE)
  /\ SetPl([pl EXCEPT !.pc = "lRet"])
  /\ UNCHANGED <<mappings, links, lockQ, bookmarks, notes, nextBm, nextId, plFrame>>

\* the caller of pullFromRaindrop resumes with the result
PullResultTaken ==
  /\ pl.pc = "lRet"
  /\ SetPl(L0)
  /\ UNCHANGED <<mappings, links, syncDepth, lockQ, bookmarks, notes, nextBm, nextId,
                 plFrame>>

\* the user adds an item to a collection in the remote service; the next
\* listing (getRaindrops, popup.ts 846-861) returns it
RemoteUserCreate(id, coll, url) ==
  /\ \A r \in remote : r.id # id
  /\ remote' = remote \cup {RemoteItem(id, coll, url, 0)}
  /\ UNCHANGED <<mappings, links, queue, plock, now, syncDepth, lockQ, call, wk, ps, pl,
                 isy, bookmarks, ev, acc, timer, notes, nextBm, nextId, nextOp,
                 nextItem, okMaps, okLinks, auxFrame>>

\* the onCreated notification of a bookmark the engine made is delivered:
\* handleBookmarkCreated runs up to its first await (popup.ts 266-292)
DeliverCreated(e, bookmark) ==
  /\ ev[e].pc = "idle"
  /\ bookmark \in notes
  /\ notes' = notes \ {bookmark}
  /\ IF syncDepth > 0 \/ ~isValidSyncUrl(bookmark.url)
     THEN ev' = ev
     ELSE SetEv(e, [E0 EXCEPT !.pc = "eMapping", !.bm = <<bookmark>>])
  /\ UNCHANGED <<bookmarks, acc, timer, nextOp, evFrame>>

\* ============================================== performInitialSync (a pass)
SetIsy(rec) == isy' = rec

\* a Map keyed by normalized url, as the sequence of its entries in insertion
\* order: set replaces the value of a present key in place
MapSet(map, key, value) ==
  IF \E i \in 1..Len(map) : map[i].key = key
  THEN [i \in 1..Len(map) |->
          IF map[i].key = key THEN [key |-> key, value |-> value] ELSE map[i]]
  ELSE Append(map, [key |-> key, value |-> value])
MapGet(map, key) == SelectSeq(map, LAMBDA e : e.key = key)
MapDelete(map, key) == SelectSeq(map, LAMBDA e : e.key # key)

\* raindropByUrl (syncManager 93-96) over the items from index i
RECURSIVE RaindropsByUrl(_, _, _)
RaindropsByUrl(rds, i, map) ==
  IF i > Len(rds) THEN map
  ELSE RaindropsByUrl(rds, i + 1, MapSet(map, normalizeUrl(rds[i].url), rds[i]))

\* the matching loop (syncManager 99-117) from bookmark i: unsyncable urls
\* are passed over, a bookmark whose normalized url is in the map is matched
\* with that item and the entry deleted, the others are only in Firefox; what
\* stays in the map is only in Raindrop
RECURSIVE MatchBookmarks(_, _, _)
MatchBookmarks(bms, i, st) ==
  IF i > Len(bms)
  THEN [matched |-> st.matched, onlyInFirefox |-> st.onlyInFirefox,
        onlyInRaindrop |-> [k \in 1..Len(st.map) |-> st.map[k].value]]
  ELSE IF ~isValidSyncUrl(bms[i].url) THEN MatchBookmarks(bms, i + 1, st)
  ELSE LET normalizedUrl == normalizeUrl(bms[i].url)
           matchingRaindrop == MapGet(st.map, normalizedUrl)
       IN IF matchingRaindrop # <<>>
          THEN MatchBookmarks(bms, i + 1,
                 [st EXCEPT !.matched = Append(@, [bookmark |-> bms[i],
                                                   raindrop |-> matchingRaindrop[1].value]),
                            !.map = MapDelete(@, normalizedUrl)])
          ELSE MatchBookmarks(bms, i + 1,
                 [st EXCEPT !.onlyInFirefox = Append(@, bms[i])])

\* the mapping is already synced: every syncable bookmark of the folder is
\* linked to an item of the collection with a matching url, and every item
\* of the collection is linked to a bookmark of the folder
AlreadySynced(m) ==
  /\ \A b \in bookmarks : (b.folder = m.ff /\ isValidSyncUrl(b.url)) =>
       \E l \in Range(links), r \in remote :
         l.ff = b.id /\ l.rd = r.id /\ r.coll = m.rc /\ urlsMatch(b.url, r.url)
  /\ \A r \in remote : r.coll = m.rc =>
       \E l \in Range(links), b \in bookmarks :
         l.rd = r.id /\ l.ff = b.id /\ b.folder = m.ff

\* performInitialSync(mapping) is called (message handlers, triggerSync, full
\* resync): setSyncing(true); bookmarks.get finds the folder (mapped folders
\* are never deleted here) and getChildren is awaited (syncManager 60-77)
StartInitialSync(m) ==
  /\ syncDepth' = setSyncing(syncDepth, TRUE)
  /\ SetIsy([I0 EXCEPT !.pc = "iChildren", !.mapping = <<m>>,
                       !.synced = AlreadySynced(m), !.runs = isy.runs,
                       !.started = isy.started + 1])

CallInitialSync(m) ==
  /\ isy.pc = "idle"
  /\ isy.started < MaxRuns
  /\ m \in Range(mappings)
  /\ StartInitialSync(m)
  /\ UNCHANGED <<mappings, links, remote, lockQ, bookmarks, notes, nextBm, nextId,
                 nextItem, isFrame>>

\* getChildren resolves (syncManager 75-80); getAllRaindropsInCollection is
\* awaited
InitGetChildren ==
  /\ isy.pc = "iChildren"
  /\ SetIsy([isy EXCEPT !.pc = "iRemote", !.bms = Children(bookmarks, isy.mapping[1].ff)])
  /\ UNCHANGED <<mappings, links, remote, syncDepth, lockQ, bookmarks, notes, nextBm,
                 nextId, nextItem, isFrame>>

\* return result / a throw; finally setSyncing(false) (syncManager 216-221):
\* the run is over, a returned result reaches the caller
InitFinish(rec, returned) ==
  /\ syncDepth' = setSyncing(syncDepth, FALSE)
  /\ SetIsy([I0 EXCEPT !.started = rec.started,
                       !.runs = IF returned
                                THEN Append(rec.runs, [matched |-> rec.result.matched,
                                       createdInRaindrop |-> rec.result.createdInRaindrop,
                                       createdInFirefox |-> rec.result.createdInFirefox,
                                       synced |-> rec.synced])
                                ELSE rec.runs])

\* the loop over onlyInRaindrop from index n (syncManager 184-211) up to its
\* next await: bookmarks.create, or after the last item updateFolderMapping
\* reads the mappings
InitCreateNext(rec, n, chain) ==
  /\ IF n > Len(rec.onlyInRaindrop)
     THEN SetIsy([rec EXCEPT !.pc = "iMapRead", !.op = "none", !.phase = "none",
                             !.link = <<>>])
     ELSE SetIsy([rec EXCEPT !.pc = "iCreate", !.op = "none", !.phase = "pulled",
                             !.n = n, !.link = <<>>])
  /\ lockQ' = chain
  /\ UNCHANGED nextId

\* the created item at or after index n that some remaining bookmark's url
\* matches (syncManager 155-157: findIndex, continue on -1)
RECURSIVE NextCreatedMatch(_, _, _)
NextCreatedMatch(created, remaining, n) ==
  IF n > Len(created) THEN n
  ELSE IF \E i \in 1..Len(remaining) : urlsMatch(remaining[i].url, created[n].url)
  THEN n
  ELSE NextCreatedMatch(created, remaining, n + 1)

\* the loop over createdRaindrops from index n (syncManager 152-175) up to
\* its next await: the first remaining bookmark whose url matches is taken
\* out of remainingBookmarks and addBookmarkLink joins the chain
InitLinkCreated(rec, from, chain) ==
  LET n == NextCreatedMatch(rec.created, rec.remaining, from)
  IN IF n > Len(rec.created)
     THEN InitCreateNext(rec, 1, chain)
     ELSE LET raindrop == rec.created[n]
              idx == CHOOSE i \in 1..Len(rec.remaining) :
                       /\ urlsMatch(rec.remaining[i].url, raindrop.url)
                       /\ \A j \in 1..(i - 1) :
                            ~urlsMatch(rec.remaining[j].url, raindrop.url)
              originalBookmark == rec.remaining[idx]
          IN /\ SetIsy([rec EXCEPT !.pc = "locked", !.op = "addBookmarkLink",
                          !.phase = "created", !.n = n,
                          !.remaining = [i \in 1..(Len(@) - 1) |->
                                           IF i < idx THEN @[i] ELSE @[i + 1]],
                          !.link = <<BookmarkLink(nextId, originalBookmark.id,
                                       raindrop.id, rec.mapping[1].id, raindrop.url)>>])
             /\ nextId' = nextId + 1
             /\ lockQ' = Append(chain, "i1")

\* after the matched pairs (syncManager 138-149): createRaindrops is awaited
\* when some bookmark is only in Firefox
InitBulkCreate(rec, chain) ==
  IF rec.onlyInFirefox # <<>>
  THEN /\ SetIsy([rec EXCEPT !.pc = "iBulk", !.op = "none", !.phase = "none",
                             !.link = <<>>])
       /\ lockQ' = chain
       /\ UNCHANGED nextId
  ELSE InitCreateNext(rec, 1, chain)

\* the loop over the matched pairs from index n (syncManager 120-135) up to
\* its next await: addBookmarkLink joins the chain
InitLinkMatched(rec, n, chain) ==
  IF n > Len(rec.matched)
  THEN InitBulkCreate(rec, chain)
  ELSE /\ SetIsy([rec EXCEPT !.pc = "locked", !.op = "addBookmarkLink",
                    !.phase = "matched", !.n = n,
                    !.link = <<BookmarkLink(nextId, rec.matched[n].bookmark.id,
                                 rec.matched[n].raindrop.id, rec.mapping[1].id,
                                 rec.matched[n].bookmark.url)>>])
       /\ nextId' = nextId + 1
       /\ lockQ' = Append(chain, "i1")

\* getAllRaindropsInCollection resolves (syncManager 83-117): the bookmarks
\* and the items are classified and the first loop starts
InitGetRaindrops ==
  /\ isy.pc = "iRemote"
  /\ LET rds == ItemsIn(remote, isy.mapping[1].rc)
         c == MatchBookmarks(isy.bms, 1,
                [map |-> RaindropsByUrl(rds, 1, <<>>), matched |-> <<>>,
                 onlyInFirefox |-> <<>>])
     IN InitLinkMatched([isy EXCEPT !.rds = rds, !.matched = c.matched,
                                    !.onlyInFirefox = c.onlyInFirefox,
                                    !.onlyInRaindrop = c.onlyInRaindrop], 1, lockQ)
  /\ UNCHANGED <<mappings, links, remote, syncDepth, bookmarks, notes, nextBm,
                 nextItem, isFrame>>

\* getAllRaindropsInCollection rejects: nothing catches it, the finally block
\* runs and the call rejects
InitGetRaindropsFail ==
  /\ isy.pc = "iRemote"
  /\ InitFinish(isy, FALSE)
  /\ UNCHANGED <<mappings, links, remote, lockQ, bookmarks, notes, nextBm, nextId,
                 nextItem, isFrame>>

\* createRaindrops resolves (syncManager 140-151): one item per bookmark that
\* was only in Firefox now exists remotely, with the bookmark's url
InitCreateRaindropsOk ==
  /\ isy.pc = "iBulk"
  /\ nextItem + Len(isy.onlyInFirefox) - 1 <= MaxItems
  /\ LET createdRaindrops ==
           [i \in 1..Len(isy.onlyInFirefox) |->
              RemoteItem(nextItem + i - 1, isy.mapping[1].rc, isy.onlyInFirefox[i].url,
                         isy.onlyInFirefox[i].id)]
     IN /\ remote' = remote \cup Range(createdRaindrops)
        /\ InitLinkCreated([isy EXCEPT !.created = createdRaindrops,
                                       !.remaining = isy.onlyInFirefox], 1, lockQ)
  /\ nextItem' = nextItem + Len(isy.onlyInFirefox)
  /\ UNCHANGED <<mappings, links, syncDepth, bookmarks, notes, nextBm, isFrame>>

\* createRaindrops rejects: caught and reported (syncManager 176-180); the
\* loop over onlyInRaindrop starts
InitCreateRaindropsFail ==
  /\ isy.pc = "iBulk"
  /\ InitCreateNext(isy, 1, lockQ)
  /\ UNCHANGED <<mappings, links, remote, syncDepth, bookmarks, notes, nextBm,
                 nextItem, isFrame>>

\* bookmarks.create resolves (syncManager 186-208): the bookmark exists, its
\* onCreated notification is on its way, addBookmarkLink joins the chain
InitCreateBookmark ==
  /\ isy.pc = "iCreate"
  /\ nextBm <= 10 + MaxBookmarks
  /\ LET raindrop == isy.onlyInRaindrop[isy.n]
         bookmark == Bookmark(nextBm, isy.mapping[1].ff, raindrop.url, "t")
     IN /\ bookmarks' = bookmarks \cup {bookmark}
        /\ notes' = notes \cup {bookmark}
        /\ SetIsy([isy EXCEPT !.pc = "locked", !.op = "addBookmarkLink",
                     !.link = <<BookmarkLink(nextId, nextBm, raindrop.id,
                                             isy.mapping[1].id, raindrop.url)>>])
  /\ nextBm' = nextBm + 1
  /\ nextId' = nextId + 1
  /\ lockQ' = Append(lockQ, "i1")
  /\ UNCHANGED <<mappings, links, remote, syncDepth, nextItem, isFrame>>

\* addBookmarkLink's task runs; the loop that issued it counts the pair and
\* goes on (syncManager 133-134, 173-174, 207-208)
RunInitAddBookmarkLink ==
  /\ IsHead("i1", "addBookmarkLink")
  /\ links' = addBookmarkLink(links, isy.link[1])
  /\ CASE isy.phase = "matched" ->
            InitLinkMatched([isy EXCEPT !.result.matched = @ + 1],
                            isy.n + 1, Tail(lockQ))
       [] isy.phase = "created" ->
            InitLinkCreated([isy EXCEPT !.result.createdInRaindrop = @ + 1],
                            isy.n + 1, Tail(lockQ))
       [] OTHER ->
            InitCreateNext([isy EXCEPT !.result.createdInFirefox = @ + 1],
                           isy.n + 1, Tail(lockQ))
  /\ UNCHANGED <<mappings, remote, syncDepth, bookmarks, notes, nextBm, nextItem,
                 isFrame>>

\* updateFolderMapping(mapping.id, {lastSync}) reads the mappings (syncManager
\* 214, storage.ts 192-200): an unknown id ends it without a write and the
\* run returns
InitUpdateMappingRead ==
  /\ isy.pc = "iMapRead"
  /\ IF isy.mapping[1].id \in MappingIds(mappings)
     THEN /\ SetIsy([isy EXCEPT !.pc = "iMapSave",
                        !.upd = <<updateFolderMapping(mappings, isy.mapping[1].id,
                                                      [lastSync |-> now])>>])
          /\ UNCHANGED syncDepth
     ELSE InitFinish(isy, TRUE)
  /\ UNCHANGED <<mappings, links, remote, lockQ, bookmarks, notes, nextBm, nextId,
                 nextItem, isFrame>>

\* saveFolderMappings lands (storage.ts 201-203); return result; finally
\* setSyncing(false)
InitUpdateMappingSave ==
  /\ isy.pc = "iMapSave"
  /\ mappings' = isy.upd[1]
  /\ InitFinish(isy, TRUE)
  /\ UNCHANGED <<links, remote, lockQ, bookmarks, notes, nextBm, nextId, nextItem,
                 isFrame>>

\* ======================================================= performFullResync
\* what no full resync touches
frFrame == <<mappings, plock, remote, now, call, wk, ps, pl, bookmarks, ev, acc, timer,
             notes, nextBm, nextId, nextOp, nextItem, okMaps, cred, api, stats, nest,
             colls, rl>>

\* performFullResync is called (message 'fullResync'); getFolderMappings is
\* awaited (syncManager 723-732); a resync ends before the next begins
CallFullResync ==
  /\ fr.pc = "idle"
  /\ isy.started + Len(mappings) <= MaxRuns
  /\ fr' = [F0 EXCEPT !.pc = "fMappings"]
  /\ UNCHANGED <<links, queue, lockQ, isy, syncDepth, okLinks, frFrame>>

\* getFolderMappings resolves (syncManager 732-739): without mappings the
\* call returns with the error 'No mappings configured' (0 in errors), else
\* saveBookmarkLinks([]) joins the chain
ResyncGetMappings ==
  /\ fr.pc = "fMappings"
  /\ IF mappings = <<>>
     THEN /\ fr' = [F0 EXCEPT !.pc = "ret", !.errors = <<0>>]
          /\ lockQ' = lockQ
     ELSE /\ fr' = [fr EXCEPT !.pc = "locked", !.op = "clearLinks", !.ms = mappings]
          /\ lockQ' = Append(lockQ, "f1")
  /\ UNCHANGED <<links, queue, isy, syncDepth, okLinks, frFrame>>

\* _saveBookmarkLinks([]) lands (syncManager 738, storage.ts 239-241); the
\* dynamic import of clearQueue is awaited
RunResyncClearLinks ==
  /\ IsHead("f1", "clearLinks")
  /\ links' = <<>>
  /\ okLinks' = {}
  /\ fr' = [fr EXCEPT !.pc = "fImport", !.op = "none", !.clearedLinks = TRUE]
  /\ lockQ' = Tail(lockQ)
  /\ UNCHANGED <<queue, isy, syncDepth, frFrame>>

\* the import resolves; clearQueue's saveQueue joins the chain (syncManager
\* 741-742)
ResyncImport ==
  /\ fr.pc = "fImport"
  /\ fr' = [fr EXCEPT !.pc = "locked", !.op = "clearQueue"]
  /\ lockQ' = Append(lockQ, "f1")
  /\ UNCHANGED <<links, queue, isy, syncDepth, okLinks, frFrame>>

\* the loop over the mappings at index k (syncManager 744-753) up to its
\* next await: performInitialSync(mapping) is called and runs up to its
\* first await; after the last mapping updateSettings is awaited
ResyncCall(rec, k) ==
  IF k > Len(rec.ms)
  THEN /\ fr' = [rec EXCEPT !.pc = "fSettings", !.k = k]
       /\ UNCHANGED <<isy, syncDepth>>
  ELSE /\ isy.pc = "idle"
       /\ fr' = [rec EXCEPT !.pc = "fSync", !.k = k, !.seen = Len(isy.runs),
                            !.calls = Append(@, rec.ms[k].id)]
       /\ StartInitialSync(rec.ms[k])

\* _saveQueue lands (storage.ts 424-426); the loop starts
RunResyncClearQueue ==
  /\ IsHead("f1", "clearQueue")
  /\ queue' = clearQueue(queue)
  /\ lockQ' = Tail(lockQ)
  /\ ResyncCall([fr EXCEPT !.op = "none", !.clearedQueue = TRUE], 1)
  /\ UNCHANGED <<links, okLinks, frFrame>>

\* performInitialSync has settled: a result is pushed to results, a throw is
\* caught and pushed to errors (syncManager 745-752); the loop goes on
ResyncSyncDone ==
  /\ fr.pc = "fSync"
  /\ isy.pc = "idle"
  /\ IF Len(isy.runs) > fr.seen
     THEN ResyncCall([fr EXCEPT !.results = Append(@, isy.runs[Len(isy.runs)])],
                     fr.k + 1)
     ELSE ResyncCall([fr EXCEPT !.errors = Append(@, fr.ms[fr.k].id)], fr.k + 1)
  /\ UNCHANGED <<links, queue, lockQ, okLinks, frFrame>>

\* updateSettings({lastFullSync}) lands; the result is returned (syncManager
\* 755-761)
ResyncUpdateSettings ==
  /\ fr.pc = "fSettings"
  /\ fr' = [fr EXCEPT !.pc = "ret"]
  /\ UNCHANGED <<links, queue, lockQ, isy, syncDepth, okLinks, frFrame>>

\* the message handler resumes with the result
FullResyncReturn ==
  /\ fr.pc = "ret"
  /\ fr' = F0
  /\ UNCHANGED <<links, queue, lockQ, isy, syncDepth, okLinks, frFrame>>

\* ------------------------------------------------- passes in progress
\* a pass is in progress from its setSyncing(true) to its setSyncing(false):
\* pushToRaindrop (syncManager 467-488), pullFromRaindrop (260-290),
\* performInitialSync (60-221), processQueue (queue.ts 94-140)
PushRunning == ps.pc \notin {"idle", "pGuard", "pMappings", "pRet"}
PullRunning == pl.pc \notin {"idle", "lGuard", "lMappings", "lRet"}
InitialSyncRunning == isy.pc # "idle"
QueueRunning(w) == wk[w].acquired /\ wk[w].pc \notin {"idle", "ret"}

\* the number of passes in progress
PassesRunning ==
  (IF PushRunning THEN 1 ELSE 0) + (IF PullRunning THEN 1 ELSE 0)
  + (IF InitialSyncRunning THEN 1 ELSE 0)
  + Cardinality({w \in Workers : QueueRunning(w)})

\* ------------------------------------------------------------------- Init
\* the extension has started: nothing is running; ms, q, ls are what
\* storage holds, nOp the next operation id, rs the remote items and bs the
\* bookmarks, with link i having id i; items born remotely have ids 21, 22,
\* ..., items the engine creates 1, 2, ...
InitState(ms, q, nOp, ls, rs, bs) ==
  /\ mappings = ms
  /\ links = ls
  /\ queue = q
  /\ plock = <<>>
  /\ remote = rs
  /\ now = 1
  /\ syncDepth = 0
  /\ lockQ = <<>>
  /\ call = [c \in Callers |-> Idle]
  /\ wk = [w \in Workers |-> W0]
  /\ ps = P0
  /\ pl = L0
  /\ isy = I0
  /\ bookmarks = bs
  /\ ev = [e \in Events |-> E0]
  /\ acc = <<>>
  /\ timer = FALSE
  /\ notes = {}
  /\ nextBm = 11
  /\ nextId = 1 + Len(ls)
  /\ nextOp = nOp
  /\ nextItem = 1
  /\ fr = F0
  /\ cred = [token |-> "T1", revoked |-> FALSE]
  /\ api = [a \in Apis |-> A0]
  /\ stats = 0
  /\ nest = N0
  /\ colls = {}
  /\ rl = R0
  /\ okMaps = {}
  /\ okLinks = {}

\* nothing linked yet, no bookmark, no remote item
InitWith(ms, q, nOp) == InitState(ms, q, nOp, <<>>, {}, {})

\* DEFAULT_SYNC_QUEUE (types/storage.ts)
EmptyQueue == [pending |-> <<>>, failed |-> <<>>]

\* a fresh install: nothing stored
Init == InitWith(<<>>, EmptyQueue, 1)

\* the user has mapped folder 1 to collection 1 and its sub-folder 2 to
\* collection 2
Mapped == <<FolderMapping(11, 1, 1, 0), FolderMapping(12, 2, 2, 11)>>

\* ======================================== SpecMappings: the mapping registry
\* addFolderMapping / removeFolderMapping / updateFolderMapping issued
\* concurrently (options page messages, nested-folder propagation, the
\* lastSync update at the end of a reconciliation pass)
NextMappings ==
  \E c \in Callers :
    \/ \E ff \in FolderIds, rc \in CollIds, parent \in {0} \cup MappingIds(mappings) :
         AddMappingRead(c, ff, rc, parent)
    \/ AddMappingSave(c)
    \/ \E id \in MappingIds(mappings) : RemoveMappingRead(c, id)
    \/ RemoveMappingSave(c)
    \/ RemoveMappingReadLinks(c)
    \/ RunRemoveMappingSaveLinks(c)
    \/ \E id \in MappingIds(mappings) : UpdateMappingRead(c, id)
    \/ UpdateMappingSave(c)
    \/ Return(c)

SpecMappings == Init /\ [][NextMappings]_vars

\* ============================================== SpecLinks: the link registry
\* two mappings exist (a folder and its sub-folder); links are added, updated
\* and removed concurrently while mappings are removed
InitLinks == InitWith(Mapped, EmptyQueue, 1)

NextLinks ==
  \E c \in Callers :
    \/ \E id \in MappingIds(mappings) : RemoveMappingRead(c, id)
    \/ RemoveMappingSave(c)
    \/ RemoveMappingReadLinks(c)
    \/ RunRemoveMappingSaveLinks(c)
    \/ \E ff \in BookmarkIds, rd \in ItemIds, m \in MappingIds(mappings) :
         CallAddBookmarkLink(c, ff, rd, m, "a")
    \/ RunAddBookmarkLink(c)
    \/ \E id \in LinkIds(links), m \in MappingIds(mappings) :
         CallUpdateBookmarkLink(c, id, [m |-> m])
    \/ \E id \in LinkIds(links) :
         CallUpdateBookmarkLink(c, id, [url |-> "b",
                                        contentHash |-> computeBookmarkHash("b", "t")])
    \/ RunUpdateBookmarkLink(c)
    \/ \E id \in LinkIds(links) : CallRemoveBookmarkLink(c, id)
    \/ RunRemoveBookmarkLink(c)
    \/ Return(c)

SpecLinks == InitLinks /\ [][NextLinks]_vars

\* =========================================== SpecEnqueue: filling the queue
\* the observer's flushes call addToQueue, concurrently, while the alarm's
\* processQueue drains the queue
NextEnqueue ==
  \/ \E c \in Callers :
       \/ \E ff \in BookmarkIds : CallAddToQueue(c, ff, "t")
       \/ RunAddToQueue(c)
       \/ Return(c)
  \/ CallProcessQueue("w1")
  \/ AcquireLockGet("w1")
  \/ AcquireLockSet("w1")
  \/ GetQueue("w1")
  \/ PushCreateFind("w1")
  \/ CreateRaindropOk("w1")
  \/ CreateRaindropFail("w1")
  \/ RunHandlerAddBookmarkLink("w1")
  \/ RunRemoveFromQueue("w1")
  \/ UpdateSyncStats("w1")
  \/ RunMoveToFailed("w1")
  \/ ReleaseLock("w1")
  \/ ProcessQueueReturn("w1")

InitEnqueue == InitWith(Mapped, EmptyQueue, 1)

SpecEnqueue == InitEnqueue /\ [][NextEnqueue]_vars

\* ============================================= SpecQueue: draining the queue
\* two operations are pending (two bookmarks were created in a mapped folder);
\* processQueue invocations (alarm, start-up, triggerSync), the 'retryFailed'
\* message with its forceProcess, and stop overlap
InitQueue ==
  InitWith(Mapped,
           [pending |-> <<CreateOperation(1, 1, "a", "t"), CreateOperation(2, 2, "b", "t")>>,
            failed |-> <<>>],
           3)

NextQueue ==
  \/ RetryFailedRead("w2")
  \/ \E w \in Workers :
       \/ CallProcessQueue(w)
       \/ RunRetryFailedSave(w)
       \/ ForceProcessRelease(w)
       \/ AcquireLockGet(w)
       \/ AcquireLockSet(w)
       \/ GetQueue(w)
       \/ PushCreateFind(w)
       \/ CreateRaindropOk(w)
       \/ CreateRaindropFail(w)
       \/ RunHandlerAddBookmarkLink(w)
       \/ RunRemoveFromQueue(w)
       \/ UpdateSyncStats(w)
       \/ RunMoveToFailed(w)
       \/ ReleaseLock(w)
       \/ ProcessQueueReturn(w)
  \/ Stop

SpecQueue == InitQueue /\ [][NextQueue]_vars

\* ======================================== SpecLock: the processing lock's age
\* one operation is pending; two processQueue invocations overlap while time
\* passes
InitLock ==
  InitWith(Mapped, [pending |-> <<CreateOperation(1, 1, "a", "t")>>, failed |-> <<>>], 2)

NextLock ==
  \/ \E w \in Workers :
       \/ CallProcessQueue(w)
       \/ AcquireLockGet(w)
       \/ AcquireLockSet(w)
       \/ GetQueue(w)
       \/ PushCreateFind(w)
       \/ CreateRaindropOk(w)
       \/ CreateRaindropFail(w)
       \/ RunHandlerAddBookmarkLink(w)
       \/ RunRemoveFromQueue(w)
       \/ UpdateSyncStats(w)
       \/ RunMoveToFailed(w)
       \/ ReleaseLock(w)
       \/ ProcessQueueReturn(w)
  \/ Tick

SpecLock == InitLock /\ [][NextLock]_vars

\* ================================== SpecSync: local creations and a push pass
\* folder 1 is mapped to collection 1; the user creates bookmarks in it while
\* the alarm's processQueue (w1) and pushToRaindrop passes run
MappedOne == <<FolderMapping(11, 1, 1, 0)>>

InitSync == InitWith(MappedOne, EmptyQueue, 1)

\* the url of the bookmark the user creates
UrlOf(b) == IF b = 1 THEN "a" ELSE "b"

NextSync ==
  \/ \E e \in Events :
       \/ \E b \in BookmarkIds : UserCreateBookmark(e, b, 1, UrlOf(b))
       \/ EvFindMapping(e)
       \/ EvFindLink(e)
       \/ EvFindLinkByUrl(e)
  \/ FlushTimer("c1")
  \/ RunAddToQueue("c1")
  \/ Return("c1")
  \/ CallProcessQueue("w1")
  \/ AcquireLockGet("w1")
  \/ AcquireLockSet("w1")
  \/ GetQueue("w1")
  \/ PushCreateFind("w1")
  \/ CreateRaindropOk("w1")
  \/ CreateRaindropFail("w1")
  \/ RunHandlerAddBookmarkLink("w1")
  \/ RunRemoveFromQueue("w1")
  \/ UpdateSyncStats("w1")
  \/ RunMoveToFailed("w1")
  \/ ReleaseLock("w1")
  \/ ProcessQueueReturn("w1")
  \/ CallPush
  \/ PushGuard
  \/ PushGetMappings
  \/ PushGetChildren
  \/ PushGetRaindrops
  \/ PushGetRaindropsFail
  \/ PushGetLinks
  \/ PushCreateOk
  \/ PushCreateFail
  \/ RunPushAddBookmarkLink
  \/ PushReturn

SpecSync == InitSync /\ [][NextSync]_vars

\* ============================ SpecReplay: an interrupted operation is replayed
\* one create operation is pending; the service worker may be terminated at
\* any suspension point of processQueue; a later alarm finds the lock stale
\* and runs the operation again
InitReplay ==
  InitWith(Mapped, [pending |-> <<CreateOperation(1, 1, "a", "t")>>, failed |-> <<>>], 2)

NextReplay ==
  \/ CallProcessQueue("w1")
  \/ AcquireLockGet("w1")
  \/ AcquireLockSet("w1")
  \/ GetQueue("w1")
  \/ PushCreateFind("w1")
  \/ CreateRaindropOk("w1")
  \/ CreateRaindropFail("w1")
  \/ RunHandlerAddBookmarkLink("w1")
  \/ RunRemoveFromQueue("w1")
  \/ UpdateSyncStats("w1")
  \/ RunMoveToFailed("w1")
  \/ ReleaseLock("w1")
  \/ ProcessQueueReturn("w1")
  \/ Tick
  \/ Interrupt

SpecReplay == InitReplay /\ [][NextReplay]_vars

\* ================================== SpecPull: pull passes and their echoes
\* folder 1 is mapped to collection 1 and folder 2 to collection 2.  Bookmark
\* 1 of folder 1 is linked to item 21; item 22 of collection 2 has the same
\* url up to normalization and no link; the user adds item 23, with another
\* url, to collection 1.  Pull passes (the sync alarm) and push passes
\* (triggerSync) run, the notifications of the bookmarks they create are
\* delivered at any time, the user creates a bookmark, and the alarm's
\* processQueue (w1) runs.
InitPull ==
  InitState(Mapped, EmptyQueue, 1,
            <<BookmarkLink(1, 1, 21, 11, "a")>>,
            {RemoteItem(21, 1, "a", 0), RemoteItem(22, 2, "a/", 0)},
            {Bookmark(1, 1, "a", "t")})

NextPull ==
  \/ RemoteUserCreate(23, 1, "b")
  \/ CallPush
  \/ PushGuard
  \/ PushGetMappings
  \/ PushGetChildren
  \/ PushGetRaindrops
  \/ PushGetLinks
  \/ PushCreateOk
  \/ RunPushAddBookmarkLink
  \/ PushReturn
  \/ CallPull
  \/ PullGuard
  \/ PullGetMappings
  \/ PullGetRaindrops
  \/ PullGetLocalLinks
  \/ PullGetAllLinks
  \/ PullCreateBookmark
  \/ RunPullAddBookmarkLink
  \/ PullUpdateMappingRead
  \/ PullUpdateMappingSave
  \/ PullReturn
  \/ PullResultTaken
  \/ \E e \in Events :
       \/ \E b \in notes : DeliverCreated(e, b)
       \/ UserCreateBookmark(e, 2, 2, "b")
       \/ EvFindMapping(e)
       \/ EvFindLink(e)
       \/ EvFindLinkByUrl(e)
  \/ FlushTimer("c1")
  \/ RunAddToQueue("c1")
  \/ Return("c1")
  \/ CallProcessQueue("w1")
  \/ AcquireLockGet("w1")
  \/ AcquireLockSet("w1")
  \/ GetQueue("w1")
  \/ PushCreateFind("w1")
  \/ CreateRaindropOk("w1")
  \/ RunHandlerAddBookmarkLink("w1")
  \/ RunRemoveFromQueue("w1")
  \/ UpdateSyncStats("w1")
  \/ ReleaseLock("w1")
  \/ ProcessQueueReturn("w1")

SpecPull == InitPull /\ [][NextPull]_vars

\* ============================ SpecConflict: a bookmark changed on both sides
\* Bookmark 1 is linked to remote item 21 with url "a". The user has changed
\* the bookmark's url to "b" (handleBookmarkChanged stored the update
\* operation, popup.ts 393-447) and the item's url has become "c" remotely.
\* Bookmark 2 is linked to item 22, which has been deleted remotely.
\* The alarm's processQueue (w1) and pullFromRaindrop run in any order.
InitConflict ==
  InitState(Mapped,
            [pending |-> <<SyncOperation(1, "update", "firefox", 1, 21, "b", "t", 0, 0)>>,
             failed |-> <<>>],
            2,
            <<BookmarkLink(1, 1, 21, 11, "a"), BookmarkLink(2, 2, 22, 11, "a/")>>,
            {RemoteItem(21, 1, "c", 0)},
            {Bookmark(1, 1, "b", "t"), Bookmark(2, 1, "a/", "t")})

NextConflict ==
  \/ CallProcessQueue("w1")
  \/ AcquireLockGet("w1")
  \/ AcquireLockSet("w1")
  \/ GetQueue("w1")
  \/ UpdateRaindropOk("w1")
  \/ UpdateRaindropFail("w1")
  \/ PushUpdateFind("w1")
  \/ RunHandlerUpdateBookmarkLink("w1")
  \/ RunRemoveFromQueue("w1")
  \/ UpdateSyncStats("w1")
  \/ RunMoveToFailed("w1")
  \/ ReleaseLock("w1")
  \/ ProcessQueueReturn("w1")
  \/ CallPull
  \/ PullGuard
  \/ PullGetMappings
  \/ PullGetRaindrops
  \/ PullGetLocalLinks
  \/ PullGetAllLinks
  \/ PullUpdateBookmark
  \/ RunPullUpdateBookmarkLink
  \/ PullRemoveBookmark
  \/ RunPullRemoveBookmarkLink
  \/ PullUpdateMappingRead
  \/ PullUpdateMappingSave
  \/ PullReturn
  \/ PullResultTaken

SpecConflict == InitConflict /\ [][NextConflict]_vars

\* ================================ SpecInitial: initial sync of one mapping
\* Folder 1 is mapped to collection 1 and nothing is linked. The folder holds
\* bookmark 1 and possibly bookmark 2, the collection possibly items 21 and
\* 22, with urls that may or may not normalize to the same value.
\* performInitialSync is called up to MaxRuns times, one call after the other.
InitInitial ==
  \E u1 \in {"a", "a?utm", "about:x"}, u2 \in {"", "a/", "b"},
     r1 \in {"", "a", "a?utm"}, r2 \in {"", "a/", "b"} :
    InitState(MappedOne, EmptyQueue, 1, <<>>,
              {RemoteItem(21, 1, r1, 0) : x \in {r1} \ {""}}
                \cup {RemoteItem(22, 1, r2, 0) : x \in {r2} \ {""}},
              {Bookmark(1, 1, u1, "t")}
                \cup {Bookmark(2, 1, u2, "t") : x \in {u2} \ {""}})

NextInitial ==
  \/ \E m \in Range(mappings) : CallInitialSync(m)
  \/ InitGetChildren
  \/ InitGetRaindrops
  \/ InitGetRaindropsFail
  \/ InitCreateRaindropsOk
  \/ InitCreateRaindropsFail
  \/ InitCreateBookmark
  \/ RunInitAddBookmarkLink
  \/ InitUpdateMappingRead
  \/ InitUpdateMappingSave

SpecInitial == InitInitial /\ [][NextInitial]_vars

\* ======================================= SpecMove: bookmarks moved by the user
\* Folders 1 and 2 are mapped to collections 1 and 2, folder 3 is not mapped.
\* Bookmark 1 lies in folder 1 and is linked to remote item 21. The user
\* creates bookmark 2, in folder 1 with a syncable url or in folder 3 with an
\* internal one, moves bookmark 1 out of folder 1 and bookmark 2 into the
\* mapped folders; the accumulator is flushed and the alarm's processQueue
\* (w1) runs.
InitMove ==
  InitState(Mapped, EmptyQueue, 1,
            <<BookmarkLink(1, 1, 21, 11, "a")>>,
            {RemoteItem(21, 1, "a", 0)},
            {Bookmark(1, 1, "a", "t")})

NextMove ==
  \/ \E e \in Events :
       \/ UserCreateBookmark(e, 2, 1, "b")
       \/ UserCreateBookmark(e, 2, 3, "about:x")
       \/ \E f \in {2, 3} : UserMoveBookmark(e, 1, f)
       \/ \E f \in {1, 2} : UserMoveBookmark(e, 2, f)
       \/ EvFindMapping(e)
       \/ EvFindLink(e)
       \/ EvFindLinkByUrl(e)
       \/ EvMovedFindMappings(e)
       \/ EvMovedFindLink(e)
       \/ EvMovedGetBookmark(e)
  \/ FlushTimer("c1")
  \/ RunAddToQueue("c1")
  \/ Return("c1")
  \/ CallProcessQueue("w1")
  \/ AcquireLockGet("w1")
  \/ AcquireLockSet("w1")
  \/ GetQueue("w1")
  \/ PushCreateFind("w1")
  \/ CreateRaindropOk("w1")
  \/ RunHandlerAddBookmarkLink("w1")
  \/ DeleteRaindropOk("w1")
  \/ DeleteRaindropFail("w1")
  \/ PushDeleteFind("w1")
  \/ RunHandlerRemoveBookmarkLink("w1")
  \/ MoveRaindropOk("w1")
  \/ MoveRaindropFail("w1")
  \/ PushMoveFind("w1")
  \/ RunHandlerMoveBookmarkLink("w1")
  \/ RunRemoveFromQueue("w1")
  \/ UpdateSyncStats("w1")
  \/ RunMoveToFailed("w1")
  \/ ReleaseLock("w1")
  \/ ProcessQueueReturn("w1")

SpecMove == InitMove /\ [][NextMove]_vars

\* ======================================== SpecResync: a full resync
\* Folders 1 and 2 are mapped to collections 1 and 2. Bookmark 1 is linked to
\* item 21, one operation is pending and one has failed; collection 2 holds
\* item 22 and folder 2 bookmark 2, which are not linked. The user asks for
\* a full resync while creating bookmark 3 in folder 1; the notifications of
\* the bookmarks the resync creates are delivered at any time.
InitResync ==
  InitState(Mapped,
            [pending |-> <<CreateOperation(8, 1, "a", "t")>>,
             failed |-> <<[CreateOperation(9, 2, "c", "t") EXCEPT
                            !.retries = DEFAULT_MAX_RETRIES, !.lastError = "api"]>>],
            1,
            <<BookmarkLink(1, 1, 21, 11, "a")>>,
            {RemoteItem(21, 1, "a", 0), RemoteItem(22, 2, "b", 0)},
            {Bookmark(1, 1, "a", "t"), Bookmark(2, 2, "c", "t")})

NextResync ==
  \/ CallFullResync
  \/ ResyncGetMappings
  \/ RunResyncClearLinks
  \/ ResyncImport
  \/ RunResyncClearQueue
  \/ ResyncSyncDone
  \/ ResyncUpdateSettings
  \/ FullResyncReturn
  \/ InitGetChildren
  \/ InitGetRaindrops
  \/ InitGetRaindropsFail
  \/ InitCreateRaindropsOk
  \/ InitCreateRaindropsFail
  \/ InitCreateBookmark
  \/ RunInitAddBookmarkLink
  \/ InitUpdateMappingRead
  \/ InitUpdateMappingSave
  \/ \E e \in Events :
       \/ \E b \in notes : DeliverCreated(e, b)
       \/ UserCreateBookmark(e, 3, 1, "b")
       \/ EvFindMapping(e)
       \/ EvFindLink(e)
       \/ EvFindLinkByUrl(e)
  \/ FlushTimer("c1")
  \/ RunAddToQueue("c1")
  \/ Return("c1")

SpecResync == InitResync /\ [][NextResync]_vars

\* ============================ syncManager: nested-folder propagation
\* syncFolderWithChildren(firefoxFolderId, raindropParentId) as the message
\* 'syncFolderWithChildren' calls it: parentMappingId null, depth 0.
MAX_SYNC_DEPTH == 5
NestRoot == 30                  \* the folder the propagation is called for
NestFolders == 31..37           \* the folders below it
\* the folder trees, each the function from a folder to its parent: every
\* folder lies in the root (0) or in the folder created before it (1),
\* folders 34 and 37 possibly in the one before that (2)
NestTrees ==
  {[f \in NestFolders |-> IF up[f - NestRoot] = 0 THEN NestRoot ELSE f - up[f - NestRoot]] :
     up \in {0} \X {0, 1} \X {0, 1} \X {0, 1, 2} \X {0, 1} \X {0, 1} \X {0, 1, 2}}
\* folder titles: the last two folders have the same title
TitleOf(f) == <<"f1", "f2", "f3", "f4", "f5", "x", "x">>[f - NestRoot]

\* a remote collection: _id, title, parent.$id (0: none)
Collection(id, title, parent) == [id |-> id, title |-> title, parent |-> parent]

nestFrame == <<links, queue, plock, remote, now, syncDepth, lockQ, call, wk, ps, pl, isy,
               bookmarks, ev, acc, timer, notes, nextBm, nextOp, nextItem, fr, cred,
               api, stats, rl, okLinks>>

RECURSIVE SeqOfSet(_)
SeqOfSet(S) ==
  IF S = {} THEN <<>>
  ELSE LET least == CHOOSE x \in S : \A y \in S : x <= y
       IN <<least>> \o SeqOfSet(S \ {least})

\* bookmarks.getChildren(folder): the sub-folders, in creation order
NestChildren(par, folder) == SeqOfSet({f \in NestFolders : par[f] = folder})

\* a recursion that never stops at a depth
AtMaxDepth_Never(depth) == FALSE

\* the test both functions begin with (syncManager 635-638, 657-660)
AtMaxDepth(depth) == depth >= MAX_SYNC_DEPTH

\* a frame of _syncFolderWithChildrenCached: its arguments and the children
\* its loop has not reached yet
NestCall(folder, rc, m, depth, kids) ==
  [folder |-> folder, rc |-> rc, m |-> m, depth |-> depth, kids |-> kids]

\* collectionsCache.find (syncManager 671-677): <<>> for undefined
FindCollection(cache, title, rc) ==
  LET found == {c \in cache : c.title = title /\ c.parent = rc}
  IN IF found = {} THEN <<>> ELSE <<CHOOSE c \in found : TRUE>>

\* the mapping built for the child at hand (syncManager 691-701)
NestMapping(id, top, cid) ==
  [FolderMapping(id, Head(top.kids), cid, top.m) EXCEPT !.depth = top.depth + 1]

\* the loop of the top frame up to its next await (syncManager 665-690): a
\* frame without children left returns to its caller's loop, the outermost
\* one to the caller of syncFolderWithChildren; for a child whose collection
\* is in the cache the mapping is built and addFolderMapping called, for
\* another createCollection is called
RECURSIVE NestLoop(_, _, _)
NestLoop(rec, stack, id) ==
  IF stack = <<>>
  THEN [rec EXCEPT !.pc = "ret", !.res = "ok", !.stack = <<>>, !.m = <<>>, !.snap = <<>>]
  ELSE LET top == stack[Len(stack)]
       IN IF top.kids = <<>>
          THEN NestLoop(rec, SubSeq(stack, 1, Len(stack) - 1), id)
          ELSE LET c == FindCollection(rec.cache, TitleOf(Head(top.kids)), top.rc)
               IN IF c # <<>>
                  THEN [rec EXCEPT !.pc = "nAddRead", !.stack = stack, !.snap = <<>>,
                                   !.m = <<NestMapping(id, top, c[1].id)>>]
                  ELSE [rec EXCEPT !.pc = "nCreate", !.stack = stack, !.snap = <<>>,
                                   !.m = <<>>]

\* generateId() is called when a mapping is built
NestStep(rec) ==
  /\ nest' = rec
  /\ nextId' = IF rec.pc = "nAddRead" /\ rec.m # nest.m THEN nextId + 1 ELSE nextId

\* message 'syncFolderWithChildren' (popup 1144-1153): depth 0 is below the
\* cap, getAllCollections is awaited (syncManager 629-642)
CallSyncFolderWithChildren(par) ==
  /\ nest.pc = "idle"
  /\ nextId <= MaxIds
  /\ ~AtMaxDepth(0)
  /\ nest' = [N0 EXCEPT !.pc = "nColls", !.tree = par]
  /\ UNCHANGED <<mappings, colls, nextId, okMaps, nestFrame>>

\* getAllCollections resolves; _syncFolderWithChildrenCached is entered and
\* awaits getChildren (syncManager 642-663)
NestGetCollections ==
  /\ nest.pc = "nColls"
  /\ nest' = [nest EXCEPT !.pc = "nChildren", !.cache = colls,
                          !.stack = <<NestCall(NestRoot, 0, 0, 0, <<>>)>>]
  /\ UNCHANGED <<mappings, colls, nextId, okMaps, nestFrame>>

\* getChildren resolves; the loop starts (syncManager 663-690)
NestGetChildren ==
  /\ nest.pc = "nChildren"
  /\ LET n == Len(nest.stack)
         top == nest.stack[n]
         stack == [nest.stack EXCEPT ![n].kids = NestChildren(nest.tree, top.folder)]
     IN NestStep(NestLoop(nest, stack, nextId))
  /\ UNCHANGED <<mappings, colls, okMaps, nestFrame>>

\* createCollection resolves: the collection exists remotely and joins the
\* cache; the mapping is built and addFolderMapping called (syncManager 682-703)
NestCreateCollection ==
  /\ nest.pc = "nCreate"
  /\ LET top == nest.stack[Len(nest.stack)]
         new == Collection(Cardinality(colls) + 1, TitleOf(Head(top.kids)), top.rc)
     IN /\ colls' = colls \cup {new}
        /\ nest' = [nest EXCEPT !.pc = "nAddRead", !.cache = @ \cup {new},
                                !.m = <<NestMapping(nextId, top, new.id)>>]
  /\ nextId' = nextId + 1
  /\ UNCHANGED <<mappings, okMaps, nestFrame>>

\* createCollection rejects: nothing catches it, the propagation rejects
NestCreateCollectionFail ==
  /\ nest.pc = "nCreate"
  /\ nest' = [nest EXCEPT !.pc = "ret", !.res = "error", !.stack = <<>>]
  /\ UNCHANGED <<mappings, colls, nextId, okMaps, nestFrame>>

\* addFolderMapping's getFolderMappings resolves (storage 139-156): a
\* duplicate throws and the propagation rejects, else the save is issued
NestAddMappingRead ==
  /\ nest.pc = "nAddRead"
  /\ IF MappingExists(mappings, nest.m[1])
     THEN nest' = [nest EXCEPT !.pc = "ret", !.res = "error", !.stack = <<>>]
     ELSE nest' = [nest EXCEPT !.pc = "nAddSave", !.snap = Append(mappings, nest.m[1])]
  /\ UNCHANGED <<mappings, colls, nextId, okMaps, nestFrame>>

\* saveFolderMappings lands; the mapping is collected and the recursive call
\* made (syncManager 703-714): at the cap it returns [] at once and the loop
\* goes on with the next child, else it awaits the child's getChildren
NestAddMappingSave ==
  /\ nest.pc = "nAddSave"
  /\ mappings' = nest.snap
  /\ okMaps' = okMaps \cup {nest.m[1].id}
  /\ LET n == Len(nest.stack)
         top == nest.stack[n]
         child == Head(top.kids)
         rest == [nest.stack EXCEPT ![n].kids = Tail(top.kids)]
         rec == [nest EXCEPT !.made = Append(@, nest.m[1])]
     IN IF AtMaxDepth(top.depth + 1)
        THEN NestStep(NestLoop([rec EXCEPT !.capped = @ \cup {child}], rest, nextId))
        ELSE /\ nest' = [rec EXCEPT !.pc = "nChildren", !.m = <<>>, !.snap = <<>>,
                           !.stack = Append(rest, NestCall(child, nest.m[1].rc,
                                                           nest.m[1].id,
                                                           top.depth + 1, <<>>))]
             /\ nextId' = nextId
  /\ UNCHANGED <<colls, nestFrame>>

\* the message handler resumes with the result
NestReturn ==
  /\ nest.pc = "ret"
  /\ nest' = N0
  /\ UNCHANGED <<mappings, colls, nextId, okMaps, nestFrame>>

\* ================================================== raindropApi: apiRequest
\* The stored credential is cred.token ("none": no api_token record);
\* cred.revoked records that a 401 answer cleared it and no credential has
\* been saved since.
MAX_RETRIES == 3
Tokens == {"T1", "T2"}
\* the answers of a request: a status, or 0 for a fetch that rejects with a
\* network TypeError
Statuses == {0, 200, 401, 404, 429, 500}

apiFrame == <<mappings, links, queue, plock, remote, now, syncDepth, lockQ, call, wk,
              ps, pl, isy, bookmarks, ev, acc, timer, notes, nextBm, nextId, nextOp,
              nextItem, fr, stats, nest, colls, rl, okMaps, okLinks>>

SetApi(a, rec) == api' = [api EXCEPT ![a] = rec]

\* a getAccessToken that passes whatever getApiToken resolved with
getAccessToken_Unchecked(token) == TRUE

\* getAccessToken (popup 645-651): resolves iff a token is stored
getAccessToken(token) == token # "none"

\* apiRequest is called with retryCount = 0; rateLimiter.wait and getApiToken
\* are awaited (popup 653-661)
CallApi(a) ==
  /\ api[a].pc = "idle"
  /\ SetApi(a, [A0 EXCEPT !.pc = "tok", !.late = cred.revoked])
  /\ UNCHANGED <<cred, apiFrame>>

\* getApiToken resolves: without a token the call rejects, with one fetch is
\* called (popup 661-681)
ApiSend(a) ==
  /\ api[a].pc = "tok"
  /\ IF getAccessToken(cred.token)
     THEN SetApi(a, [api[a] EXCEPT !.pc = "fetch", !.sent = @ + 1])
     ELSE SetApi(a, [api[a] EXCEPT !.pc = "ret", !.res = "rejected"])
  /\ UNCHANGED <<cred, apiFrame>>

\* the retry of apiRequest after its delay, or the rejection when the
\* retries are used up (popup 684-692, 708-713, 722-732)
ApiRetry(rec) ==
  IF rec.retryCount < MAX_RETRIES
  THEN [rec EXCEPT !.pc = "tok", !.retryCount = @ + 1]
  ELSE [rec EXCEPT !.pc = "ret", !.res = "rejected"]

\* fetch settles (popup 681-735): 429, a server error and a network error
\* are retried, 401 calls clearApiToken, any other failure rejects
ApiResponse(a, status) ==
  /\ api[a].pc = "fetch"
  /\ IF status = 401
     THEN /\ cred' = [token |-> "none", revoked |-> TRUE]
          /\ SetApi(a, [api[a] EXCEPT !.pc = "cleared", !.got401 = TRUE])
     ELSE /\ UNCHANGED cred
          /\ IF status = 200
             THEN SetApi(a, [api[a] EXCEPT !.pc = "ret", !.res = "ok"])
             ELSE IF status = 429 \/ status >= 500 \/ status = 0
             THEN SetApi(a, ApiRetry(api[a]))
             ELSE SetApi(a, [api[a] EXCEPT !.pc = "ret", !.res = "rejected"])
  /\ UNCHANGED apiFrame

\* clearApiToken settles: 'Token invalid' is thrown and rethrown by the
\* catch (popup 703-707, 734-735)
ApiTokenCleared(a) ==
  /\ api[a].pc = "cleared"
  /\ SetApi(a, [api[a] EXCEPT !.pc = "ret", !.res = "rejected"])
  /\ UNCHANGED <<cred, apiFrame>>

\* the caller of apiRequest resumes
ApiReturn(a) ==
  /\ api[a].pc = "ret"
  /\ SetApi(a, A0)
  /\ UNCHANGED <<cred, apiFrame>>

\* message 'saveApiToken' (popup 1078-1080; storage 38-49)
SaveApiToken(t) ==
  /\ cred' = [token |-> t, revoked |-> FALSE]
  /\ api' = [a \in Apis |-> [api[a] EXCEPT !.late = FALSE]]
  /\ UNCHANGED apiFrame

\* message 'clearApiToken' (popup 1082-1085; storage 62-70)
ClearApiToken ==
  /\ cred.token # "none"
  /\ cred' = [cred EXCEPT !.token = "none"]
  /\ UNCHANGED <<api, apiFrame>>

\* ================================ SpecErrors: passes whose remote calls fail
\* Folders 1 and 2 are mapped to collections 1 and 2; bookmark 1 of folder 1
\* is linked to item 21, bookmark 2 of folder 2 and item 22 of collection 2
\* are not linked. A push pass, a pull pass and a full resync run, each
\* started while no other pass is under way; any listing of a collection
\* and any bulk creation may fail.
InitErrors ==
  InitState(Mapped, EmptyQueue, 1,
            <<BookmarkLink(1, 1, 21, 11, "a")>>,
            {RemoteItem(21, 1, "a", 0), RemoteItem(22, 2, "b", 0)},
            {Bookmark(1, 1, "a", "t"), Bookmark(2, 2, "c", "t")})

NextErrors ==
  \/ (pl.pc \in {"idle", "lRet"} /\ fr.pc \in {"idle", "ret"}) /\ CallPush
  \/ PushGuard
  \/ PushGetMappings
  \/ PushGetChildren
  \/ PushGetRaindrops
  \/ PushGetRaindropsFail
  \/ PushGetLinks
  \/ PushCreateOk
  \/ PushCreateFail
  \/ RunPushAddBookmarkLink
  \/ PushReturn
  \/ (ps.pc \in {"idle", "pRet"} /\ fr.pc \in {"idle", "ret"}) /\ CallPull
  \/ PullGuard
  \/ PullGetMappings
  \/ PullGetRaindrops
  \/ PullGetRaindropsFail
  \/ PullGetLocalLinks
  \/ PullGetAllLinks
  \/ PullCreateBookmark
  \/ RunPullAddBookmarkLink
  \/ PullUpdateMappingRead
  \/ PullUpdateMappingSave
  \/ PullReturn
  \/ PullResultTaken
  \/ (ps.pc \in {"idle", "pRet"} /\ pl.pc \in {"idle", "lRet"}) /\ CallFullResync
  \/ ResyncGetMappings
  \/ RunResyncClearLinks
  \/ ResyncImport
  \/ RunResyncClearQueue
  \/ ResyncSyncDone
  \/ ResyncUpdateSettings
  \/ FullResyncReturn
  \/ InitGetChildren
  \/ InitGetRaindrops
  \/ InitGetRaindropsFail
  \/ InitCreateRaindropsOk
  \/ InitCreateRaindropsFail
  \/ InitCreateBookmark
  \/ RunInitAddBookmarkLink
  \/ InitUpdateMappingRead
  \/ InitUpdateMappingSave

SpecErrors == InitErrors /\ [][NextErrors]_vars

\* ================================= SpecApi: remote calls and the credential
\* A credential is stored; two remote calls run concurrently, the service
\* answers as it likes, the user saves and clears credentials.
InitApi == InitWith(Mapped, EmptyQueue, 1)

NextApi ==
  \/ \E a \in Apis :
       \/ CallApi(a)
       \/ ApiSend(a)
       \/ \E status \in Statuses : ApiResponse(a, status)
       \/ ApiTokenCleared(a)
       \/ ApiReturn(a)
  \/ \E t \in Tokens : SaveApiToken(t)
  \/ ClearApiToken

SpecApi == InitApi /\ [][NextApi]_vars

\* ============================================== raindropApi: RateLimiter
\* RATE_LIMIT_WINDOW and MAX_REQUESTS_PER_WINDOW (popup.ts 610-611), scaled
\* to the clock of the model; the margin added to the wait time (popup.ts
\* 630) is one tick
RATE_LIMIT_WINDOW == 4
MAX_REQUESTS_PER_WINDOW == 2
RATE_LIMIT_MARGIN == 1

rlFrame == <<mappings, links, queue, plock, remote, now, syncDepth, lockQ, call, wk,
             ps, pl, isy, bookmarks, ev, acc, timer, notes, nextBm, nextId, nextOp,
             nextItem, fr, cred, api, stats, nest, colls, okMaps, okLinks>>

\* this.requests.filter((time) => now - time < RATE_LIMIT_WINDOW)
\* (popup.ts 622-624)
RequestsInWindow(requests, t) ==
  SelectSeq(requests, LAMBDA time : t - time < RATE_LIMIT_WINDOW)

\* rateLimiter.wait() is called before a request is sent (popup.ts 618-635,
\* 659): the old requests are dropped; on a saturated window the call
\* suspends on a timer, otherwise it records the request and returns
RlWait(a) ==
  /\ rl.w[a].pc = "idle"
  /\ LET kept == RequestsInWindow(rl.requests, now)
     IN IF Len(kept) >= MAX_REQUESTS_PER_WINDOW
        THEN LET oldestRequest == kept[1]
                 waitTime == RATE_LIMIT_WINDOW - (now - oldestRequest) + RATE_LIMIT_MARGIN
             IN rl' = [requests |-> kept,
                       w |-> [rl.w EXCEPT ![a] = [pc |-> "sleep", wake |-> now + waitTime]]]
        ELSE rl' = [requests |-> Append(kept, now), w |-> rl.w]
  /\ UNCHANGED rlFrame

\* the timer of a suspended wait() fires: the request is recorded and the
\* call returns (popup.ts 631-635)
RlWake(a) ==
  /\ rl.w[a].pc = "sleep"
  /\ now >= rl.w[a].wake
  /\ rl' = [requests |-> Append(rl.requests, now),
            w |-> [rl.w EXCEPT ![a] = [pc |-> "idle", wake |-> 0]]]
  /\ UNCHANGED rlFrame

\* ===================================== SpecRate: callers of the rate limiter
\* remote calls are issued at any time by two callers while time passes
NextRate ==
  \/ \E a \in Apis :
       \/ RlWait(a)
       \/ RlWake(a)
  \/ Tick

SpecRate == Init /\ [][NextRate]_vars

\* ================================ SpecInvalid: an operation the handler rejects
\* The user created bookmark 1 with an empty title and bookmark 2 with a
\* title in the mapped folder 1; handleBookmarkCreated queued a create
\* operation for each (popup.ts 330-345 copies bookmark.title). processQueue
\* invocations overlap while time passes.
InitInvalid ==
  InitWith(Mapped,
           [pending |-> <<CreateOperation(1, 1, "a", ""), CreateOperation(2, 2, "b", "t")>>,
            failed |-> <<>>],
           3)

SpecInvalid == InitInvalid /\ [][NextLock]_vars

\* ================================== SpecDrain: the queue drains under fairness
\* Two create operations are pending, the second with an empty title. The
\* alarm calls processQueue again and again, every await of an invocation
\* settles and time passes (weak fairness); the service worker may be
\* terminated at any suspension point as long as the lock such a termination
\* leaves behind can still grow stale before the clock's bound.
InitDrain ==
  InitWith(Mapped,
           [pending |-> <<CreateOperation(1, 1, "a", "t"), CreateOperation(2, 2, "b", "")>>,
            failed |-> <<>>],
           3)

\* the steps of the alarm's processQueue invocation
DrainStep ==
  \/ CallProcessQueue("w1")
  \/ AcquireLockGet("w1")
  \/ AcquireLockSet("w1")
  \/ GetQueue("w1")
  \/ PushCreateFind("w1")
  \/ CreateRaindropOk("w1")
  \/ CreateRaindropFail("w1")
  \/ RunHandlerAddBookmarkLink("w1")
  \/ RunRemoveFromQueue("w1")
  \/ UpdateSyncStats("w1")
  \/ RunMoveToFailed("w1")
  \/ ReleaseLock("w1")
  \/ ProcessQueueReturn("w1")

NextDrain ==
  \/ DrainStep
  \/ Tick
  \/ now <= MaxTime - PROCESSING_LOCK_TIMEOUT /\ Interrupt

SpecDrain ==
  InitDrain /\ [][NextDrain]_vars /\ WF_vars(DrainStep) /\ WF_vars(Tick)

\* ================================ SpecStatus: the status read model's counter
\* Nothing is queued. The observer's flush (c1) calls addToQueue, the popup
\* (c2) sends 'clearQueue' and 'getSyncStatus'; the alarm's processQueue and
\* the 'retryFailed' message with its forceProcess (w1) drain the queue with
\* successes and failures.
NextStatus ==
  \/ \E ff \in BookmarkIds : CallAddToQueue("c1", ff, "t")
  \/ RunAddToQueue("c1")
  \/ GetSyncStatus("c2")
  \/ CallClearQueue("c2")
  \/ RunClearQueue("c2")
  \/ \E c \in Callers : Return(c)
  \/ CallProcessQueue("w1")
  \/ RetryFailedRead("w1")
  \/ RunRetryFailedSave("w1")
  \/ ForceProcessRelease("w1")
  \/ AcquireLockGet("w1")
  \/ AcquireLockSet("w1")
  \/ GetQueue("w1")
  \/ PushCreateFind("w1")
  \/ CreateRaindropOk("w1")
  \/ CreateRaindropFail("w1")
  \/ RunHandlerAddBookmarkLink("w1")
  \/ RunRemoveFromQueue("w1")
  \/ UpdateSyncStats("w1")
  \/ RunMoveToFailed("w1")
  \/ ReleaseLock("w1")
  \/ ProcessQueueReturn("w1")

SpecStatus == InitEnqueue /\ [][NextStatus]_vars

\* ================================== SpecRetry: retryFailed while the queue fills
\* One operation is pending and one has failed three times. The popup sends
\* 'retryFailed' (w1: retryFailed, then forceProcess and its processQueue)
\* while the observer's flush (c1) calls addToQueue.
InitRetry ==
  InitWith(Mapped,
           [pending |-> <<CreateOperation(8, 1, "a", "t")>>,
            failed |-> <<[CreateOperation(9, 2, "c", "t") EXCEPT
                           !.retries = DEFAULT_MAX_RETRIES, !.lastError = "api"]>>],
           1)

NextRetry ==
  \/ \E ff \in BookmarkIds : CallAddToQueue("c1", ff, "t")
  \/ RunAddToQueue("c1")
  \/ Return("c1")
  \/ RetryFailedRead("w1")
  \/ RunRetryFailedSave("w1")
  \/ ForceProcessRelease("w1")
  \/ AcquireLockGet("w1")
  \/ AcquireLockSet("w1")
  \/ GetQueue("w1")
  \/ PushCreateFind("w1")
  \/ CreateRaindropOk("w1")
  \/ CreateRaindropFail("w1")
  \/ RunHandlerAddBookmarkLink("w1")
  \/ RunRemoveFromQueue("w1")
  \/ UpdateSyncStats("w1")
  \/ RunMoveToFailed("w1")
  \/ ReleaseLock("w1")
  \/ ProcessQueueReturn("w1")

SpecRetry == InitRetry /\ [][NextRetry]_vars

\* ============================== SpecNest: propagation over a folder tree
\* A fresh install. The options page asks for the propagation of folder 30,
\* below which lies any of the trees of NestTrees; every await of the
\* propagation settles (weak fairness).
NestWork ==
  \/ NestGetCollections
  \/ NestGetChildren
  \/ NestCreateCollection
  \/ NestCreateCollectionFail
  \/ NestAddMappingRead
  \/ NestAddMappingSave
  \/ NestReturn

NextNest ==
  \/ \E par \in NestTrees : CallSyncFolderWithChildren(par)
  \/ NestWork

SpecNest == Init /\ [][NextNest]_vars /\ WF_vars(NestWork)

\* ======================= SpecGone: a pull pass over items deleted remotely
\* Folders 1 and 2 are mapped to collections 1 and 2.  Bookmarks 1 and 2 of
\* folder 1 are linked to items 21 and 22, bookmark 3 of folder 2 to item 23;
\* item 22 has been deleted remotely.  A pull pass runs; the user removes
\* bookmark 2 or bookmark 3 at any time, and the observer's accumulator is
\* flushed.
InitGone ==
  InitState(Mapped, EmptyQueue, 1,
            <<BookmarkLink(1, 1, 21, 11, "a"), BookmarkLink(2, 2, 22, 11, "b"),
              BookmarkLink(3, 3, 23, 12, "c")>>,
            {RemoteItem(21, 1, "a", 0), RemoteItem(23, 2, "c", 0)},
            {Bookmark(1, 1, "a", "t"), Bookmark(2, 1, "b", "t"), Bookmark(3, 2, "c", "t")})

NextGone ==
  \/ CallPull
  \/ PullGuard
  \/ PullGetMappings
  \/ PullGetRaindrops
  \/ PullGetLocalLinks
  \/ PullGetAllLinks
  \/ PullRemoveBookmark
  \/ RunPullRemoveBookmarkLink
  \/ PullUpdateMappingRead
  \/ PullUpdateMappingSave
  \/ PullReturn
  \/ PullResultTaken
  \/ \E e \in Events :
       \/ \E b \in {2, 3} : UserRemoveBookmark(e, b)
       \/ EvRemovedFindLink(e)
  \/ FlushTimer("c1")
  \/ RunAddToQueue("c1")
  \/ Return("c1")

SpecGone == InitGone /\ [][NextGone]_vars

\* ================== SpecRace: a pull pass beside the writers of new links
\* Folder 1 is mapped to collection 1.  The user has created bookmark 1 in
\* it and its create operation is queued; nothing is linked and the
\* collection is empty.  A pull pass, a push pass and the alarm's
\* processQueue (w1) run in any order.
InitRace ==
  InitState(MappedOne,
            [pending |-> <<CreateOperation(1, 1, "a", "t")>>, failed |-> <<>>], 2,
            <<>>, {}, {Bookmark(1, 1, "a", "t")})

NextRace ==
  \/ CallProcessQueue("w1")
  \/ AcquireLockGet("w1")
  \/ AcquireLockSet("w1")
  \/ GetQueue("w1")
  \/ PushCreateFind("w1")
  \/ CreateRaindropOk("w1")
  \/ RunHandlerAddBookmarkLink("w1")
  \/ RunRemoveFromQueue("w1")
  \/ UpdateSyncStats("w1")
  \/ ReleaseLock("w1")
  \/ ProcessQueueReturn("w1")
  \/ CallPush
  \/ PushGuard
  \/ PushGetMappings
  \/ PushGetChildren
  \/ PushGetRaindrops
  \/ PushGetLinks
  \/ PushCreateOk
  \/ RunPushAddBookmarkLink
  \/ PushReturn
  \/ CallPull
  \/ PullGuard
  \/ PullGetMappings
  \/ PullGetRaindrops
  \/ PullGetLocalLinks
  \/ PullGetAllLinks
  \/ PullCreateBookmark
  \/ RunPullAddBookmarkLink
  \/ PullRemoveBookmark
  \/ RunPullRemoveBookmarkLink
  \/ PullUpdateMappingRead
  \/ PullUpdateMappingSave
  \/ PullReturn
  \/ PullResultTaken

SpecRace == InitRace /\ [][NextRace]_vars

\* ================= SpecBulk: push passes whose bulk creation partly fails
\* Folder 1 is mapped to collection 1, which is empty; bookmark 1 is in the
\* folder, unlinked.  The user creates bookmark 2 at any time and the
\* observer queues its operation; push passes run, and any chunk of a bulk
\* creation may fail.
InitBulk ==
  InitState(MappedOne, EmptyQueue, 1, <<>>, {}, {Bookmark(1, 1, "a", "t")})

NextBulk ==
  \/ \E e \in Events :
       \/ UserCreateBookmark(e, 2, 1, "b")
       \/ EvFindMapping(e)
       \/ EvFindLink(e)
       \/ EvFindLinkByUrl(e)
  \/ FlushTimer("c1")
  \/ RunAddToQueue("c1")
  \/ Return("c1")
  \/ CallPush
  \/ PushGuard
  \/ PushGetMappings
  \/ PushGetChildren
  \/ PushGetRaindrops
  \/ PushGetLinks
  \/ PushCreateOk
  \/ PushCreatePartial
  \/ PushCreateFail
  \/ RunPushAddBookmarkLink
  \/ PushReturn

SpecBulk == InitBulk /\ [][NextBulk]_vars

\* ============ SpecOrphan: mappings removed while operations are queued
\* Folder 1 is mapped to collection 1 and its sub-folder 2 to collection 2.
\* The user has created bookmark 1 in folder 1 and its create operation,
\* which carries the id of mapping 11, is queued.  The options page removes
\* and adds mappings (c1) and the alarm's processQueue (w1) runs.
InitOrphan ==
  InitState(Mapped,
            [pending |-> <<CreateOperation(1, 1, "a", "t")>>, failed |-> <<>>], 2,
            <<>>, {}, {Bookmark(1, 1, "a", "t")})

NextOrphan ==
  \/ \E id \in MappingIds(mappings) : RemoveMappingRead("c1", id)
  \/ RemoveMappingSave("c1")
  \/ RemoveMappingReadLinks("c1")
  \/ RunRemoveMappingSaveLinks("c1")
  \/ \E ff \in {1, 2} : AddMappingRead("c1", ff, ff, 0)
  \/ AddMappingSave("c1")
  \/ Return("c1")
  \/ CallProcessQueue("w1")
  \/ AcquireLockGet("w1")
  \/ AcquireLockSet("w1")
  \/ GetQueue("w1")
  \/ PushCreateFind("w1")
  \/ CreateRaindropOk("w1")
  \/ RunHandlerAddBookmarkLink("w1")
  \/ RunRemoveFromQueue("w1")
  \/ UpdateSyncStats("w1")
  \/ ReleaseLock("w1")
  \/ ProcessQueueReturn("w1")

SpecOrphan == InitOrphan /\ [][NextOrphan]_vars

\* ========== SpecAgain: retryFailed and clearQueue beside a processQueue pass
\* The create operation 8 of bookmark 1 is pending and the create operation
\* 9 of bookmark 2 has failed for good.  The alarm's processQueue (w1) runs;
\* the popup sends 'retryFailed' (w2: retryFailed, then forceProcess and its
\* processQueue) and 'clearQueue' (c1) at any time.
NextAgain ==
  \/ CallProcessQueue("w1")
  \/ RetryFailedRead("w2")
  \/ RunRetryFailedSave("w2")
  \/ ForceProcessRelease("w2")
  \/ \E w \in Workers :
       \/ AcquireLockGet(w)
       \/ AcquireLockSet(w)
       \/ GetQueue(w)
       \/ PushCreateFind(w)
       \/ CreateRaindropOk(w)
       \/ RunHandlerAddBookmarkLink(w)
       \/ RunRemoveFromQueue(w)
       \/ UpdateSyncStats(w)
       \/ ReleaseLock(w)
       \/ ProcessQueueReturn(w)
  \/ CallClearQueue("c1")
  \/ RunClearQueue("c1")
  \/ Return("c1")

SpecAgain == InitRetry /\ [][NextAgain]_vars

\* ================= SpecLost: a bookmark removed while the engine is at work
\* Folder 1 is mapped to collection 1; bookmark 1 is linked to item 21.  The
\* user removes bookmark 1 at any time.  The observer's handler, the flush of
\* its accumulator (c1), the alarm's processQueue (w1), and the pull and push
\* passes of the sync alarm all keep running: each of them takes its next
\* step whenever it can.
InitLost ==
  InitState(MappedOne, EmptyQueue, 1,
            <<BookmarkLink(1, 1, 21, 11, "a")>>,
            {RemoteItem(21, 1, "a", 0)},
            {Bookmark(1, 1, "a", "t")})

LostObserver ==
  \/ EvRemovedFindLink("e1")
  \/ FlushTimer("c1")
  \/ RunAddToQueue("c1")
  \/ Return("c1")

LostQueue ==
  \/ CallProcessQueue("w1")
  \/ AcquireLockGet("w1")
  \/ AcquireLockSet("w1")
  \/ GetQueue("w1")
  \/ DeleteRaindropOk("w1")
  \/ PushDeleteFind("w1")
  \/ RunHandlerRemoveBookmarkLink("w1")
  \/ RunRemoveFromQueue("w1")
  \/ UpdateSyncStats("w1")
  \/ ReleaseLock("w1")
  \/ ProcessQueueReturn("w1")

LostPull ==
  \/ CallPull
  \/ PullGuard
  \/ PullGetMappings
  \/ PullGetRaindrops
  \/ PullGetLocalLinks
  \/ PullGetAllLinks
  \/ PullCreateBookmark
  \/ RunPullAddBookmarkLink
  \/ PullRemoveBookmark
  \/ RunPullRemoveBookmarkLink
  \/ PullUpdateMappingRead
  \/ PullUpdateMappingSave
  \/ PullReturn
  \/ PullResultTaken

LostPush ==
  \/ CallPush
  \/ PushGuard
  \/ PushGetMappings
  \/ PushGetChildren
  \/ PushGetRaindrops
  \/ PushGetLinks
  \/ PushReturn

NextLost ==
  \/ UserRemoveBookmark("e1", 1)
  \/ LostObserver
  \/ LostQueue
  \/ LostPull
  \/ LostPush

SpecLost ==
  InitLost /\ [][NextLost]_vars /\ WF_vars(LostObserver) /\ WF_vars(LostQueue)
    /\ WF_vars(LostPull) /\ WF_vars(LostPush)

\* ==================================================================== claims

\* ---- C1: after any calls of the link mutators, concurrent ones included,
\* no two stored links share a local bookmark id and no two share a remote
\* item id.
C1_UniqueLinks ==
  \A i, j \in 1..Len(links) :
    i # j => links[i].ff # links[j].ff /\ links[i].rd # links[j].rd

\* two links are stored and an add that clashed with one of them was skipped
C1_Witness ==
  /\ Len(links) = 2
  /\ \E c \in Callers :
       call[c].pc = "ret" /\ call[c].op = "addBookmarkLink" /\ call[c].res = "skipped"

\* ---- C2: for every local bookmark at most one remote item is ever created
\* on its behalf, whatever the interleaving of created events, queue
\* processing with its retries, and push passes.
C2_AtMostOneItem ==
  \A b \in BookmarkIds : Cardinality({r \in remote : r.for = b}) <= 1

\* ---- C3: the stored mappings are unique by local folder id and by remote
\* collection id after any addFolderMapping / removeFolderMapping calls, and
\* an addFolderMapping whose folder or collection is already mapped fails
\* with the duplicate-mapping error and writes nothing.
C3_Conflicts(ms, m) == \E x \in Range(ms) : x.ff = m.ff \/ x.rc = m.rc

C3_UniqueMappingsState ==
  \A i, j \in 1..Len(mappings) :
    i # j => mappings[i].ff # mappings[j].ff /\ mappings[i].rc # mappings[j].rc

C3_AddStep ==
  \A c \in Callers :
    (/\ call[c].pc = "idle"
     /\ call'[c].pc \in {"amSave", "ret"}
     /\ call'[c].op = "addFolderMapping")
    => IF C3_Conflicts(mappings, call'[c].arg)
       THEN call'[c].pc = "ret" /\ call'[c].res = "duplicate" /\ mappings' = mappings
       ELSE call'[c].pc = "amSave"

C3_UniqueMappings == [](C3_UniqueMappingsState) /\ [][C3_AddStep]_vars

\* a mapping is stored and an addFolderMapping clashing with it was rejected
C3_Witness ==
  /\ Len(mappings) >= 1
  /\ \E c \in Callers :
       /\ call[c].pc = "ret" /\ call[c].op = "addFolderMapping"
       /\ call[c].res = "duplicate"
       /\ C3_Conflicts(mappings, call[c].arg)

\* ---- C4: concurrent registry mutations behave as if serialized: every
\* mapping and every link whose add succeeded, and that no remove targeted,
\* is still stored.
C4_NoLostMutation ==
  /\ okMaps \subseteq MappingIds(mappings)
  /\ okLinks \subseteq LinkIds(links)

\* ---- C5: at no time are two processQueue invocations inside the
\* processing section (between a successful acquireLock and the release in
\* finally), whatever the interleaving of alarm ticks, retryFailed with
\* forceProcess, and stop.
C5_InSection(w) == wk[w].acquired /\ wk[w].pc \notin {"idle", "ret"}

C5_MutualExclusion ==
  \A a, b \in Workers : a # b => ~(C5_InSection(a) /\ C5_InSection(b))

\* ---- C6: an invocation whose acquireLock reads a lock at least
\* PROCESSING_LOCK_TIMEOUT old goes on to overwrite it with its own timestamp
\* and then processes the pending operations.
C6_ReclaimStep ==
  \A w \in Workers :
    wk'[w] # wk[w] =>
      /\ (wk[w].pc = "acquire" /\ plock # <<>>
            /\ now - plock[1] >= PROCESSING_LOCK_TIMEOUT)
         => wk'[w].pc = "acqSet" /\ wk'[w].ts = now
      /\ wk[w].pc = "acqSet"
         => plock' = <<wk[w].ts>> /\ wk'[w].pc = "getQueue" /\ wk'[w].acquired
      /\ (wk[w].pc = "getQueue" /\ queue.pending # <<>>)
         => /\ wk'[w].snap = queue.pending /\ wk'[w].i = 1
            /\ wk'[w].pc \in {"hFind", "locked"}

C6_StaleLockReclaimed == [][C6_ReclaimStep]_vars

\* an invocation has read a stale lock and is about to overwrite it
C6_Witness ==
  \E w \in Workers :
    /\ wk[w].pc = "acqSet"
    /\ plock # <<>>
    /\ wk[w].ts - plock[1] >= PROCESSING_LOCK_TIMEOUT

\* ---- C7: an invocation whose acquireLock reads a lock younger than
\* PROCESSING_LOCK_TIMEOUT returns at once: it runs no handler and leaves the
\* queue, the links, the reentrancy guard and the lock unchanged.
C7_YoungStep ==
  \A w \in Workers :
    wk'[w] # wk[w] =>
      /\ (wk[w].pc = "acquire" /\ plock # <<>>
            /\ now - plock[1] < PROCESSING_LOCK_TIMEOUT)
         => /\ wk'[w].pc = "ret" /\ ~wk'[w].acquired
            /\ UNCHANGED <<queue, links, syncDepth, plock, remote>>
      /\ wk[w].pc = "ret"
         => /\ wk'[w].pc = "idle"
            /\ UNCHANGED <<queue, links, syncDepth, plock, remote>>

C7_YoungLockRespected == [][C7_YoungStep]_vars

\* an invocation returned without acquiring while another one holds a young lock
C7_Witness ==
  \E a, b \in Workers :
    /\ a # b
    /\ wk[a].pc = "ret" /\ ~wk[a].acquired
    /\ C5_InSection(b)
    /\ plock # <<>> /\ now - plock[1] < PROCESSING_LOCK_TIMEOUT

\* ---- C8: a processQueue invocation that acquired the lock has removed it
\* when it returns (queue empty, operations processed, or handlers threw);
\* one that did not acquire it does not remove it.
C8_ReturnState ==
  \A w \in Workers : wk[w].pc = "ret" => (wk[w].acquired <=> wk[w].released)

C8_ReleaseStep ==
  \A w \in Workers :
    /\ (~wk[w].released /\ wk'[w].released) => plock' = <<>>
    /\ (wk[w].pc = "acquire" /\ wk'[w].pc = "ret") => plock' = plock

C8_LockReleased == [](C8_ReturnState) /\ [][C8_ReleaseStep]_vars

\* an invocation whose handlers threw until an operation failed for good has
\* returned with the lock removed
C8_Witness ==
  /\ queue.failed # <<>>
  /\ plock = <<>>
  /\ \E w \in Workers : wk[w].pc = "ret" /\ wk[w].acquired /\ wk[w].released

\* ---- C9: an addToQueue whose operation equals a pending one in (type,
\* source, local id, remote id) leaves the queue as it is, so of two such
\* calls only the first one's operation is pending; otherwise the operation
\* is appended.  Holds for calls in flight at the same time.
C9_SameKey(a, b) ==
  a.type = b.type /\ a.source = b.source /\ a.ff = b.ff /\ a.rd = b.rd

C9_AddStep ==
  \A c \in Callers :
    (/\ call[c].pc = "locked"
     /\ call[c].op = "addToQueue"
     /\ call'[c] # call[c])
    => IF \E k \in 1..Len(queue.pending) : C9_SameKey(queue.pending[k], call[c].arg)
       THEN queue' = queue
       ELSE queue' = [queue EXCEPT !.pending = Append(@, call[c].arg)]

C9_PendingKeysUnique ==
  \A i, j \in 1..Len(queue.pending) :
    i # j => ~C9_SameKey(queue.pending[i], queue.pending[j])

C9_QueueDedup == [](C9_PendingKeysUnique) /\ [][C9_AddStep]_vars

\* both callers' addToQueue returned: an earlier operation is pending, the
\* later one was skipped as its duplicate
C9_Witness ==
  \E c, d \in Callers :
    /\ c # d
    /\ call[c].pc = "ret" /\ call[c].op = "addToQueue" /\ call[c].res = "duplicate"
    /\ call[d].pc = "ret" /\ call[d].op = "addToQueue" /\ call[d].res = "added"
    /\ call[d].arg \in PendingIds(queue)
    /\ call[c].arg \notin PendingIds(queue)

\* ---- C10: a failing attempt of a pending operation increments its retry
\* count and records the error; below maxRetries the operation stays pending,
\* at maxRetries it leaves the pending list and is appended once to the
\* failed list; no attempt of an operation starts while it is in the failed
\* list.
C10_FailStep ==
  \A w \in Workers :
    (/\ wk[w].pc = "locked"
     /\ wk[w].op = "moveToFailed"
     /\ wk'[w] # wk[w])
    => LET id == wk[w].snap[wk[w].i].id
           ks == {k \in 1..Len(queue.pending) : queue.pending[k].id = id}
       IN \A k \in ks :
            LET o == [queue.pending[k] EXCEPT !.retries = @ + 1,
                                              !.lastError = wk[w].err]
            IN IF o.retries < DEFAULT_MAX_RETRIES
               THEN /\ queue'.pending = [queue.pending EXCEPT ![k] = o]
                    /\ queue'.failed = queue.failed
               ELSE /\ id \notin PendingIds(queue')
                    /\ queue'.failed = Append(queue.failed, o)
                    /\ Cardinality({j \in 1..Len(queue'.failed) :
                                      queue'.failed[j].id = id}) = 1

C10_AttemptStep ==
  \A w \in Workers :
    (/\ wk'[w].i # wk[w].i
     /\ wk'[w].i >= 1)
    => wk'[w].snap[wk'[w].i].id \notin FailedIds(queue')

C10_RetriesThenFailed == [][C10_FailStep /\ C10_AttemptStep]_vars

\* ---- C11: an operation whose previous attempt was interrupted at a
\* suspension point and that is run again ends as one uninterrupted run
\* does: for its bookmark there is one remote item, never a second one, and
\* once the operation has left the queue as a success the item is the one
\* the bookmark's link names.
C11_ReplaySameResult ==
  LET items == {r \in remote : r.for = 1}
      link == findBookmarkLink(links, 1, 0)
  IN /\ Cardinality(items) <= 1
     /\ (queue = EmptyQueue /\ wk["w1"].pc = "idle")
          => (link # <<>> /\ \E r \in items : link[1].rd = r.id)

\* ---- C12: incremental push, incremental pull and queue processing are
\* never in progress two at a time: of the push pass, the pull pass and the
\* processQueue invocations at most one is between its start and its end.
C12_OnePassAtATime ==
  (IF PushRunning THEN 1 ELSE 0) + (IF PullRunning THEN 1 ELSE 0)
  + Cardinality({w \in Workers : QueueRunning(w)}) <= 1

C17_NoDuplicateOfLinkedUrl ==
  [][(pl.pc = "lCreate" /\ pl'.pc = "locked")
       => ~\E l \in Range(links) : urlsMatch(l.url, pl.rds[pl.j].url)]_vars

\* the same, against the links the pass read (allLinks and its own additions)
C17_NoDuplicateOfReadUrl ==
  [][(pl.pc = "lCreate" /\ pl'.pc = "locked")
       => normalizeUrl(pl.rds[pl.j].url) \notin pl.linkedUrls]_vars

C14_RemoteWins ==
  (/\ queue = EmptyQueue
   /\ wk["w1"].pc = "idle"
   /\ pl.pc = "idle"
   /\ mappings[1].lastSync > 0)
    => /\ \A b \in bookmarks : b.id = 1 => b.url = "c"
       /\ \A r \in remote : r.id = 21 => r.url = "c"

\* ---- C15: performInitialSync run twice in a row on a mapping whose folder
\* and collection are already synced is a no-op: a run that began on a synced
\* mapping creates no remote item, no bookmark and no link, and two
\* consecutive such runs report the same matched count.
C15_SecondRunNoOp ==
  [][/\ isy.synced => (remote' = remote /\ bookmarks' = bookmarks /\ links' = links)
     /\ \A i \in 1..(Len(isy'.runs) - 1) :
          (isy'.runs[i].synced /\ isy'.runs[i + 1].synced)
            => isy'.runs[i + 1].matched = isy'.runs[i].matched]_vars

\* two urls denote the same address: they are equal or differ only in a
\* trailing slash or a tracking parameter
C16_SameAddress(url1, url2) ==
  url1 = url2 \/ {url1, url2} \subseteq {"a", "a/", "a?utm"}

\* ---- C16: performInitialSync matches a bookmark and a remote item whose
\* urls normalize to the same value: once a run has returned, a syncable
\* bookmark of the folder and an item of the collection that match each
\* other and nothing else are tied by exactly one link, and no item and no
\* bookmark was created for them; with one such bookmark and one such item
\* the first run reports matched 1, createdInRaindrop 0, createdInFirefox 0.
C16_MatchByNormalizedUrl ==
  LET own == {b \in bookmarks : b.id <= 10}
      born == {r \in remote : r.id > 20}
      Pair(b, r) ==
        /\ isValidSyncUrl(b.url) /\ C16_SameAddress(b.url, r.url)
        /\ \A b2 \in own \ {b} : ~C16_SameAddress(b2.url, b.url)
        /\ \A r2 \in born \ {r} : ~C16_SameAddress(r2.url, r.url)
  IN Len(isy.runs) >= 1 =>
       /\ \A b \in own, r \in born :
            Pair(b, r) =>
              /\ \E l \in Range(links) : l.ff = b.id /\ l.rd = r.id
              /\ Cardinality({i \in 1..Len(links) :
                                links[i].ff = b.id \/ links[i].rd = r.id}) = 1
              /\ \A x \in remote \ born : ~C16_SameAddress(x.url, b.url)
              /\ \A x \in bookmarks \ own : ~C16_SameAddress(x.url, b.url)
       /\ (Cardinality(own) = 1 /\ Cardinality(born) = 1
             /\ \E b \in own, r \in born : Pair(b, r))
            => /\ isy.runs[1].matched = 1
               /\ isy.runs[1].createdInRaindrop = 0
               /\ isy.runs[1].createdInFirefox = 0
               /\ Len(links) = 1 /\ remote = born /\ bookmarks = own

\* the run has returned for a bookmark and an item that differ only by a
\* tracking parameter
C16_Witness ==
  /\ Len(isy.runs) >= 1
  /\ bookmarks = {Bookmark(1, 1, "a", "t")}
  /\ remote = {RemoteItem(21, 1, "a?utm", 0)}
  /\ Len(links) = 1 /\ links[1].ff = 1 /\ links[1].rd = 21

\* ---- C18: when handleBookmarkMoved finishes for a moved bookmark it has
\* emitted exactly one delete operation if only the old parent is mapped,
\* exactly one create operation if only the new parent is mapped, exactly one
\* move operation with the old and the new collection id and the new
\* mapping's id if both are mapped, and nothing if neither is.
C18_MoveEmitsOneOperation ==
  [][\A e \in Events :
       LET h == ev[e]
           old == findMappingByFirefoxId(mappings, h.oldParentId)
           new == findMappingByFirefoxId(mappings, h.parentId)
           emitted == Range(acc') \ Range(acc)
       IN (h.pc \in {"mMappings", "mLink", "mGet"} /\ ev'[e].pc = "idle") =>
            IF old = <<>> /\ new = <<>> THEN emitted = {}
            ELSE /\ Cardinality(emitted) = 1
                 /\ \A op \in emitted :
                      /\ op.ff = h.bm[1].id
                      /\ IF new = <<>> THEN op.type = "delete"
                         ELSE IF old = <<>> THEN op.type = "create"
                         ELSE /\ op.type = "move"
                              /\ op.oldColl = old[1].rc
                              /\ op.newColl = new[1].rc
                              /\ op.m = new[1].id]_vars

\* ---- C19: no operation is enqueued and no remote item is created for a
\* local bookmark whose url fails isValidSyncUrl, by any path.
C19_NoInternalUrls ==
  \A b \in bookmarks : ~isValidSyncUrl(b.url) =>
    /\ \A op \in Range(queue.pending) \cup Range(queue.failed) : op.ff # b.id
    /\ \A r \in remote : r.for # b.id

\* the step on which removeFolderMapping completes
C21_RemoveStep ==
  \A c \in Callers :
    (IsHead(c, "removeFolderMapping") /\ call'[c].pc = "ret") =>
      /\ \A i \in 1..Len(mappings') : mappings'[i].id \notin call[c].ids
      /\ links' = FilterLinks(links, call[c].ids)

\* ---- C21: when removeFolderMapping(m) completes, no mapping reachable from
\* m through parentMappingId chains (m included) is stored, no stored link
\* belongs to one of them, and every other link is stored unchanged, also
\* when links are added concurrently.
C21_RemoveCascade == [][C21_RemoveStep]_vars

\* the steps and states of a full resync
C22_ResyncStep ==
  /\ (fr'.clearedLinks /\ ~fr.clearedLinks) => links' = <<>>
  /\ (fr'.clearedQueue /\ ~fr.clearedQueue) =>
       queue'.pending = <<>> /\ queue'.failed = <<>>
  /\ fr'.calls # <<>> => fr'.clearedLinks /\ fr'.clearedQueue
  /\ (isy.pc = "idle" /\ isy'.pc # "idle") =>
       /\ fr'.calls = Append(fr.calls, isy'.mapping[1].id)
       /\ isy'.mapping[1] = fr'.ms[Len(fr'.calls)]

C22_ResyncState ==
  /\ Len(fr.calls) <= Len(fr.ms)
  /\ \A i \in 1..Len(fr.calls) : fr.calls[i] = fr.ms[i].id
  /\ (fr.pc = "ret" /\ fr.errors # <<0>>) =>
       /\ fr.ms # <<>>
       /\ fr.calls = [i \in 1..Len(fr.ms) |-> fr.ms[i].id]

\* ---- C22: performFullResync empties the link list and the whole operation
\* queue, pending and failed, before it calls performInitialSync for the
\* first time, and then calls performInitialSync exactly once for every
\* mapping it read, in stored order.
C22_FullResyncOrder == [][C22_ResyncStep]_vars /\ []C22_ResyncState

\* a full resync that began with links, pending and failed operations has
\* returned after an initial sync of both mappings
C22_Witness ==
  /\ fr.pc = "ret"
  /\ Len(fr.calls) = 2
  /\ Len(fr.results) + Len(fr.errors) = 2

\* a step on which the processing of one mapping fails, and the states after the last mapping
C23_FailStep ==
  /\ (ps.pc \in {"pRemote", "pCreate"} /\ ps'.pc \in {"pChildren", "pRet"}) =>
       /\ ps'.errors = Append(ps.errors, ps.ms[ps.k].id)
       /\ IF ps.k < Len(ps.ms)
          THEN ps'.pc = "pChildren" /\ ps'.ms = ps.ms /\ ps'.k = ps.k + 1
          ELSE ps'.pc = "pRet"
  /\ (pl.pc = "lRemote" /\ pl' # pl /\ pl'.pc \in {"lRemote", "lStats"}) =>
       /\ pl'.errors = Append(pl.errors, pl.ms[pl.k].id)
       /\ IF pl.k < Len(pl.ms)
          THEN pl'.pc = "lRemote" /\ pl'.ms = pl.ms /\ pl'.k = pl.k + 1
          ELSE pl'.pc = "lStats"
  /\ (fr.pc = "fSync" /\ fr' # fr /\ Len(fr'.results) = Len(fr.results)) =>
       /\ fr'.errors = Append(fr.errors, fr.ms[fr.k].id)
       /\ IF fr.k < Len(fr.ms)
          THEN fr'.pc = "fSync" /\ fr'.k = fr.k + 1
               /\ isy'.mapping = <<fr.ms[fr.k + 1]>>
          ELSE fr'.pc = "fSettings"

C23_Returned ==
  /\ ps.pc = "pRet" => ps.k = Len(ps.ms)
  /\ pl.pc \in {"lStats", "lRet"} => pl.k = Len(pl.ms)
  /\ (fr.pc \in {"fSettings", "ret"} /\ fr.ms # <<>>) =>
       /\ fr.k > Len(fr.ms)
       /\ Len(fr.results) + Len(fr.errors) = Len(fr.ms)

\* ---- C23: in pullFromRaindrop, pushToRaindrop and performFullResync a
\* failure while one mapping is processed is recorded in the result's error
\* list and the pass goes on with the next mapping; the pass returns its
\* result after the last mapping, whatever failed.
C23_FailuresCollected == [][C23_FailStep]_vars /\ []C23_Returned

\* the three passes have returned, each with the failure of the first
\* mapping in its error list and the second mapping processed
C23_Witness ==
  /\ ps.pc = "pRet" /\ ps.errors = <<11>>
  /\ pl.pc = "lRet" /\ pl.errors = <<11>>
  /\ fr.pc = "ret" /\ fr.errors = <<11>> /\ Len(fr.results) = 1

\* a step of a remote call: the 401 answer, the requests after it, and the
\* requests of calls begun after a 401 answer
C24_ApiStep ==
  \A a \in Apis :
    /\ (api'[a].got401 /\ ~api[a].got401) =>
         /\ cred'.token = "none"
         /\ api'[a].retryCount = api[a].retryCount
         /\ api'[a].sent = api[a].sent
    /\ api[a].got401 =>
         /\ api'[a].sent <= api[a].sent
         /\ api'[a].pc \in {"cleared", "ret", "idle"}
         /\ api'[a].pc = "ret" => api'[a].res = "rejected"
    /\ api'[a].sent > api[a].sent => ~api[a].late

\* ---- C24: when the remote service answers 401 the stored credential is
\* cleared and that request is not retried; a remote call begun after the
\* answer sends no HTTP request until a new credential has been saved.
C24_FatalCredential == [][C24_ApiStep]_vars

\* one call was answered 401 and has been rejected, and a call begun after
\* that answer has been rejected without a request, no credential saved
C24_Witness ==
  /\ cred.revoked
  /\ api["a1"].pc = "ret" /\ api["a1"].got401 /\ api["a1"].res = "rejected"
  /\ api["a2"].pc = "ret" /\ api["a2"].late /\ api["a2"].sent = 0
  /\ api["a2"].res = "rejected"

\* a step on which processOperation is entered for an operation that its
\* handler's validation rejects
C25_RejectStep ==
  \A w \in Workers :
    (/\ wk'[w].pc = "locked" /\ wk'[w].op = "moveToFailed" /\ wk'[w].err = "missing"
     /\ (wk[w].pc # "locked" \/ wk[w].i # wk'[w].i)) =>
      wk'[w].snap[wk'[w].i].retries = 0

\* ---- C25: an operation that lacks a field its handler requires is rejected
\* as a validation error and never retried: no later queue pass attempts its
\* handler again.
C25_InvalidNeverRetried == [][C25_RejectStep]_vars

\* ---- C26: when the drain tick keeps firing, every pending operation
\* eventually leaves the pending list, removed after a successful handler run
\* or moved to the failed list after maxRetries failures; the lock a
\* terminated invocation left behind only delays this.
C26_PendingDrains ==
  \A id \in 1..2 : (id \in PendingIds(queue)) ~> (id \notin PendingIds(queue))

\* an invocation was terminated between createRaindrop and the removal of
\* its operation (bookmark 1 has two remote items), and the pending list is
\* empty: the first operation was removed, the second moved to failed
C26_Witness ==
  /\ Cardinality({r \in remote : r.for = 1}) = 2
  /\ queue.pending = <<>>
  /\ FailedIds(queue) = {2}

\* the step on which getSyncStatus returns
C27_StatusStep ==
  \A c \in Callers :
    (call[c].pc = "idle" /\ call'[c].pc = "ret" /\ call'[c].op = "getSyncStatus") =>
      call'[c].res = Len(queue.pending)

\* ---- C27: the pendingOperations of the status that getSyncStatus returns
\* equals the number of operations pending at that moment, after any
\* sequence of enqueue, processQueue, retryFailed and clearQueue.
C27_StatusCountsPending == [][C27_StatusStep]_vars

\* the step on which retryFailed's save lands
C28_RetryStep ==
  \A w \in Workers :
    (IsHead(w, "retryFailed") /\ wk'[w].pc = "force") =>
      /\ queue'.failed = <<>>
      /\ queue'.pending =
           queue.pending \o
             [i \in 1..Len(queue.failed) |->
                [queue.failed[i] EXCEPT !.retries = 0, !.lastError = "none"]]

\* ---- C28: after retryFailed the failed list is empty and every operation
\* that was in it is pending with retries 0 and no last error, after the
\* operations that were already pending; pending operations, and operations
\* enqueued concurrently, are kept.
C28_RetryKeepsPending == [][C28_RetryStep]_vars

\* the step on which handleBookmarkCreated hands a create operation to
\* batchAddToQueue
C30_EmitStep ==
  \A e \in Events :
    (ev[e].pc = "eUrl" /\ ev'[e].pc = "idle" /\ nextOp' = nextOp + 1) =>
      /\ \E m \in Range(mappings) : m.ff = ev[e].bm[1].folder
      /\ \A l \in Range(links) : l.ff # ev[e].bm[1].id /\ l.url # ev[e].bm[1].url
      /\ \E op \in Range(acc') :
           op.type = "create" /\ op.ff = ev[e].bm[1].id /\ op.url = ev[e].bm[1].url

\* ---- C30: handleBookmarkCreated produces a create operation only if the
\* bookmark's parent folder has a mapping, no link exists for the bookmark's
\* local id and no link exists for its url; otherwise it produces nothing.
C30_CreateOnlyIfUnlinked == [][C30_EmitStep]_vars

\* the user's bookmark 2 has its create operation in the accumulator, and a
\* link with another bookmark's url is stored
C30_Witness ==
  /\ \E op \in Range(acc) : op.type = "create" /\ op.ff = 2 /\ op.coll = 2
  /\ links # <<>>
  /\ \A l \in Range(links) : l.ff # 2 /\ l.url # "b"

\* the level of a folder below the synced folder, counted along the tree
RECURSIVE C29_Level(_, _)
C29_Level(par, f) == IF par[f] = NestRoot THEN 1 ELSE 1 + C29_Level(par, par[f])

\* no stored mapping lies below the cap; a propagation that returned normally
\* mapped exactly the folders down to the cap, each with its level as depth
C29_Capped ==
  /\ \A m \in Range(mappings) : m.depth <= MAX_SYNC_DEPTH
  /\ (nest.pc = "ret" /\ nest.res = "ok") =>
       /\ {m.ff : m \in Range(nest.made)} =
            {f \in NestFolders : C29_Level(nest.tree, f) <= MAX_SYNC_DEPTH}
       /\ \A m \in Range(nest.made) :
            m.depth = C29_Level(nest.tree, m.ff) /\ m \in Range(mappings)

\* the step on which a recursive call returns at the cap raises nothing
C29_CapStep ==
  nest'.capped # nest.capped /\ nest'.capped # {} => nest'.res # "error"

\* ---- C29: syncFolderWithChildren terminates on every finite folder tree,
\* never creates a mapping with depth greater than 5, and at the cap stops
\* that branch without an error while the sibling branches are processed.
C29_NestTerminatesCapped ==
  /\ []C29_Capped
  /\ [][C29_CapStep]_vars
  /\ (nest.pc # "idle") ~> (nest.pc = "ret")

\* a propagation has returned normally; it stopped below folder 35 at the
\* cap and mapped folder 37, a sibling branch, after that
C29_Witness ==
  /\ nest.pc = "ret" /\ nest.res = "ok"
  /\ nest.capped = {35}
  /\ Len(nest.made) = 6
  /\ nest.made[6].ff = 37


\* the operations a flush hands to addToQueue: the one in flight and the ones
\* that follow it
C31_Passed(c) == <<c.arg>> \o c.rest
\* batchAddToQueue: the operation just built (its id is the counter's value)
\* is held for its bookmark, it is the only one held for that bookmark, and
\* the operations held for other bookmarks stay
C31_ProduceStep ==
  nextOp' = nextOp + 1 =>
    /\ \E i \in 1..Len(acc') : acc'[i].id = nextOp
    /\ \A i, j \in 1..Len(acc') : acc'[i].ff = acc'[j].ff => i = j
    /\ \A i \in 1..Len(acc) :
         (\A j \in 1..Len(acc') : acc'[j].id = nextOp => acc'[j].ff # acc[i].ff)
           => acc[i] \in Range(acc')
\* the flush: what is passed on is what the accumulator held, once each
C31_FlushStep ==
  (timer /\ ~timer') =>
    /\ Range(C31_Passed(call'["c1"])) = Range(acc)
    /\ Len(C31_Passed(call'["c1"])) = Len(acc)
    /\ \A i, j \in 1..Len(acc) : acc[i].ff = acc[j].ff => i = j
    /\ acc' = <<>>
\* C31: each flush of the accumulator passes to addToQueue at most one
\* operation per local bookmark id, the one most recently produced for it,
\* and passes on every operation produced for a distinct id.
C31_FlushLatestPerId == [][C31_ProduceStep /\ C31_FlushStep]_vars
\* a flush passes on the delete operation 2 of bookmark 1 alone: the move
\* operation 1 produced before it for the same bookmark was never passed on
C31_Witness ==
  /\ call["c1"].pc = "locked" /\ call["c1"].op = "addToQueue"
  /\ call["c1"].arg.id = 2 /\ call["c1"].arg.ff = 1 /\ call["c1"].arg.type = "delete"
  /\ call["c1"].rest = <<>>
  /\ queue = EmptyQueue /\ nextOp = 3
  /\ remote = {RemoteItem(21, 1, "a", 0)}


\* the remote ids the pass fetched for the mapping at hand
C32_Fetched == {pl.rds[i].id : i \in 1..Len(pl.rds)}
\* C32: when pullSyncForMapping has gone through mapping M, every link of M
\* whose remote id was not among the fetched items is removed, also when the
\* local bookmark was already gone; the links of M whose remote id was
\* fetched and the links of other mappings are still stored.
C32_AbsentLinksRemoved ==
  pl.pc \in {"lMapRead", "lMapSave"} =>
    /\ \A l \in Range(pl.local) :
         IF l.rd \in C32_Fetched
         THEN l \in Range(links)
         ELSE l.id \notin LinkIds(links)
    /\ \A l \in Range(pl.all) : l.m # pl.ms[pl.k].id => l \in Range(links)
\* mapping 11 is done: the link of item 22 is gone although removing its
\* bookmark was rejected, the links of item 21 and of mapping 12 are stored
C32_Witness ==
  /\ pl.pc = "lMapRead" /\ pl.k = 1 /\ pl.caught
  /\ LinkIds(links) = {1, 3}
  /\ 22 \notin C32_Fetched /\ 21 \in C32_Fetched


\* C33: no more than MAX_REQUESTS_PER_WINDOW requests start within any
\* rolling window of RATE_LIMIT_WINDOW, also when several callers were
\* suspended on a saturated window and wake together.
C33_WindowBound ==
  \A i \in 1..Len(rl.requests) :
    Cardinality({j \in 1..i : rl.requests[i] - rl.requests[j] < RATE_LIMIT_WINDOW})
      <= MAX_REQUESTS_PER_WINDOW


\* C34: the pull pass removes a local bookmark and its link only when the
\* linked remote item is absent from the mapped collection; a bookmark whose
\* item and link were created after the pass fetched the items and before it
\* read the links is not deleted.
C34_DeleteOnlyIfAbsent ==
  (pl.pc = "locked" /\ pl.op = "removeBookmarkLink") =>
    ~\E r \in remote : r.id = pl.local[pl.d].rd /\ r.coll = pl.ms[pl.k].rc


\* the link push stores for a created item binds the bookmark the item was
\* created from, under that bookmark's url
C35_LinkStep ==
  (ps.pc = "locked" /\ ps.op = "addBookmarkLink" /\ ps.created # <<>> /\ links' # links) =>
    \A l \in Range(links') \ Range(links) :
      \E r \in remote : r.id = l.rd /\ r.for = l.ff /\ r.url = l.url
\* C35: every link incremental push persists after a bulk creation binds a
\* local bookmark to the remote item created from that bookmark's url and
\* title, also when a chunk of the bulk request failed and the returned list
\* is shorter than the requested list.
C35_BulkLinksMatch == [][C35_LinkStep]_vars


\* C36: whenever no removeFolderMapping call is under way, the mappingId of
\* every stored link is the id of a stored folder mapping (no link is owned
\* by a removed mapping or by the empty mapping id).
C36_LinksOwned ==
  (\A c \in Callers : call[c].pc = "idle") =>
    \A l \in Range(links) : l.m \in MappingIds(mappings)


\* C37: the pending partition never holds two operations with the same
\* type, source, local id and remote id.
C37_PendingKeysUnique ==
  \A i, j \in 1..Len(queue.pending) :
    (/\ queue.pending[i].type = queue.pending[j].type
     /\ queue.pending[i].source = queue.pending[j].source
     /\ queue.pending[i].ff = queue.pending[j].ff
     /\ queue.pending[i].rd = queue.pending[j].rd) => i = j


\* the ids of the operations the queue holds
C38_Queued(q) == PendingIds(q) \cup FailedIds(q)
\* the create handler of op has succeeded (its link is stored) and the queue
\* does not hold op any more
C38_Removed(op) ==
  /\ op.id \notin C38_Queued(queue)
  /\ \E l \in Range(links) : l.ff = op.ff
\* an operation that is pending after a step was not removed before it, or
\* is the one addToQueue stores in this step
C38_PendingStep ==
  \A op \in Range(queue'.pending) :
    C38_Removed(op) =>
      \E c \in Callers :
        /\ call[c].pc = "locked" /\ call[c].op = "addToQueue"
        /\ call[c].arg.id = op.id /\ call'[c] # call[c]
\* no handler starts for an operation that was removed
C38_HandlerStep ==
  \A w \in Workers :
    (wk'[w].pc \in {"hFind", "hUpdate", "hDelete", "hMove"} /\ wk'[w] # wk[w]
       /\ wk[w].pc \notin {"hFind", "hUpdate", "hDelete", "hMove"})
      => ~C38_Removed(wk'[w].snap[wk'[w].i])
\* C38: an operation that removeFromQueue took out of the queue after its
\* handler succeeded does not come back to pending and its handler is not
\* started again, also when retryFailed, clearQueue or a second processQueue
\* pass overlaps the pass that processed it.
C38_RemovedStaysRemoved == [][C38_PendingStep /\ C38_HandlerStep]_vars

\* the number of stored links that reference bookmark ff, and remote item rd
C39_LinksOfBookmark(ff) == Cardinality({i \in 1..Len(links) : links[i].ff = ff})
C39_LinksOfItem(rd) == Cardinality({i \in 1..Len(links) : links[i].rd = rd})
\* C39: when every performInitialSync call begun has returned its result,
\* each bookmark of the mapped folder with a valid sync url and each remote
\* item of the mapped collection is referenced by exactly one link, also when
\* several items of one side share a normalized url.
C39_EachLinkedOnce ==
  (isy.pc = "idle" /\ isy.started >= 1 /\ Len(isy.runs) = isy.started) =>
    \A m \in Range(mappings) :
      /\ \A b \in bookmarks :
           (b.folder = m.ff /\ isValidSyncUrl(b.url)) => C39_LinksOfBookmark(b.id) = 1
      /\ \A r \in remote : r.coll = m.rc => C39_LinksOfItem(r.id) = 1


\* C40: once the user has removed the linked bookmark 1, its link is
\* eventually removed and its remote item 21 deleted, also when the removal
\* was notified while a pass held the reentrancy guard.
C40_RemovalPropagates ==
  (\A b \in bookmarks : b.id # 1)
    ~> ((\A l \in Range(links) : l.ff # 1) /\ (\A r \in remote : r.id # 21))

====
